---- MODULE Spec2Model ----
(***************************************************************************)
(* Wizard state / navigation / validation core of yoosuf/wizard-poc.       *)
(*                                                                         *)
(* The repository holds three implementations of the core:                 *)
(*   impl = "state"   useWizardState        (lib/composables)              *)
(*   impl = "store"   useWizardStore        (demo/stores/wizardStore.ts)   *)
(*   impl = "wizard"  the Wizard component  (lib/components/Wizard.vue)    *)
(*                    with the context of createWizardContext, which owns  *)
(*                    a private useWizardState instance whose step list    *)
(*                    stays empty (the context registers steps in the      *)
(*                    component's own list).                               *)
(* Every asynchronous handler is modelled as one step: the single caller   *)
(* awaits each call before issuing the next.                               *)
(***************************************************************************)
EXTENDS Integers, Sequences, FiniteSets, TLC

VARIABLES
  impl,                     \* which implementation this behaviour runs
  steps,                    \* ordered step descriptors
  currentStepIndex,         \* wizard position
  stepsData,                \* step data, in key insertion order: Seq of [id, data]
  stepsValidation,          \* step id -> [isValid, errors], partial
  stepComponents,           \* step id -> validator kind, partial (updateStepComponent)
  stepRefs,                 \* wizard: methods the step's component exposes
  currentValidationErrors,  \* wizard: Wizard.vue's own error list
  previousStepIndex,        \* events: the index setupEventHandlers remembers
  listeners,                \* events: event name -> callbacks in subscription order
  delivered,                \* events: the callbacks the most recent call invoked
  pending,                  \* wizard: navigation calls suspended at an await
  completed,                \* wizard: the positions step-complete was emitted
                            \*   for since the position last changed
  last                      \* the most recent call: [op, index, ret, events, hooks]

(* the state of useWizardEvents, which only its own operations touch *)
eventLayer == << previousStepIndex, listeners, delivered >>

vars == << impl, steps, currentStepIndex, stepsData, stepsValidation,
           stepComponents, stepRefs, currentValidationErrors, pending, completed,
           eventLayer,
           last >>

-----------------------------------------------------------------------------
(* Bounds *)

MaxSteps == 2      \* number of distinct step ids in play
MaxVal == 2        \* the largest data value written

IdPool == << "s1", "s2", "s3", "s4" >>
Ids == { IdPool[i] : i \in 1..MaxSteps }

-----------------------------------------------------------------------------
(* Optional (possibly undefined) inputs: << >> is undefined, <<v>> is v.   *)

Undef == << >>
Some(v) == << v >>
IsDef(o) == Len(o) = 1
Get(o) == o[1]
OrElse(o, d) == IF IsDef(o) THEN Get(o) ELSE d

(* JavaScript truthiness of an optional boolean / optional string *)
Truthy(o) == IsDef(o) /\ Get(o) = TRUE

-----------------------------------------------------------------------------
(* Data records: functions from a finite set of keys.  Keys are strings;   *)
(* Chars gives the characters of the keys in play, for startsWith.         *)

InteractedKey == "_interacted"
EmptyRec == [k \in {} |-> 0]

Chars(k) ==
  CASE k = "a" -> << "a" >>
    [] k = "b" -> << "b" >>
    [] k = "_interacted" -> << "_", "i", "n", "t", "e", "r", "a", "c", "t", "e", "d" >>
    [] k = "_x" -> << "_", "x" >>
    [] k = "s1" -> << "s", "1" >>
    [] k = "s2" -> << "s", "2" >>
    [] k = "s3" -> << "s", "3" >>
    [] k = "s4" -> << "s", "4" >>

startsWith(k, c) == Len(Chars(k)) > 0 /\ Chars(k)[1] = c

(* { ...d, ...p } *)
Spread(d, p) ==
  [k \in (DOMAIN d) \cup (DOMAIN p) |-> IF k \in DOMAIN p THEN p[k] ELSE d[k]]

Marker == [k \in {InteractedKey} |-> TRUE]

(* stepData._interacted as a condition *)
Interacted(d) == InteractedKey \in DOMAIN d /\ d[InteractedKey] = TRUE

-----------------------------------------------------------------------------
(* The reactive object stepsData: entries in insertion order.              *)

DataIds(sd) == { sd[i].id : i \in 1..Len(sd) }
HasData(sd, id) == id \in DataIds(sd)
DataPos(sd, id) == CHOOSE i \in 1..Len(sd) : sd[i].id = id
RawData(sd, id) == sd[DataPos(sd, id)].data

(* stepsData[id] = rec : an existing key keeps its place, a new one goes last *)
PutData(sd, id, rec) ==
  IF HasData(sd, id)
    THEN [sd EXCEPT ![DataPos(sd, id)] = [id |-> id, data |-> rec]]
    ELSE Append(sd, [id |-> id, data |-> rec])

(* stepsData[id] || {} *)
getStepData(sd, id) == IF HasData(sd, id) THEN RawData(sd, id) ELSE EmptyRec

-----------------------------------------------------------------------------
(* Step descriptors.  A WizardStep argument is                             *)
(*   [id, title, optional, isValid, errors, data]                          *)
(* with title "" when absent and the other fields optional inputs.  The    *)
(* opaque component / props references are left out.                       *)

StepIds(ss) == [i \in 1..Len(ss) |-> ss[i].id]
IdSet(ss) == { ss[i].id : i \in 1..Len(ss) }

(* steps.findIndex(s => s.id === id), as a 0-based index or -1 *)
findIndex(ss, id) ==
  IF id \in IdSet(ss)
    THEN (CHOOSE i \in 1..Len(ss) :
            ss[i].id = id /\ \A j \in 1..(i - 1) : ss[j].id # id) - 1
    ELSE -1

getStepIndexById(ss, id) == findIndex(ss, id)

(* the descriptor at a 0-based index *)
At(ss, i) == ss[i + 1]
InRange(ss, i) == i >= 0 /\ i < Len(ss)

NoValidation == [i \in {} |-> 0]

(* stepsValidation[id] = rec *)
PutValidation(sv, id, rec) ==
  [k \in (DOMAIN sv) \cup {id} |-> IF k = id THEN rec ELSE sv[k]]

-----------------------------------------------------------------------------
(* useWizardState.registerStep: the new step list and validation record.   *)

(* a registerStep that pushes without looking for the id *)
StateRegisterSteps_AlwaysPush(ss, step) ==
  Append(ss, [id |-> step.id, title |-> step.title, optional |-> step.optional,
              isValid |-> Some(OrElse(step.isValid, FALSE)),
              errors |-> Some(OrElse(step.errors, << >>)),
              data |-> step.data])

StateRegisterSteps(ss, step) ==
  LET i == findIndex(ss, step.id) IN
  IF i = -1
    THEN Append(ss, [id |-> step.id, title |-> step.title,
                     optional |-> step.optional,
                     isValid |-> Some(OrElse(step.isValid, FALSE)),
                     errors |-> Some(OrElse(step.errors, << >>)),
                     data |-> step.data])
    ELSE [ss EXCEPT ![i + 1] =
            [@ EXCEPT !.title = IF step.title # "" THEN step.title ELSE @,
                      !.optional = IF IsDef(step.optional) THEN step.optional ELSE @,
                      !.isValid = IF IsDef(step.isValid) THEN step.isValid ELSE @,
                      !.errors = IF IsDef(step.errors) THEN step.errors ELSE @]]

StateRegisterValidation(ss, sv, step) ==
  IF findIndex(ss, step.id) = -1
    THEN IF step.id \in DOMAIN sv
           THEN sv
           ELSE PutValidation(sv, step.id,
                  [isValid |-> OrElse(step.isValid, FALSE),
                   errors |-> OrElse(step.errors, << >>)])
    ELSE IF step.id \in DOMAIN sv
           THEN [sv EXCEPT ![step.id] =
                   [isValid |-> IF IsDef(step.isValid) THEN Get(step.isValid)
                                ELSE @.isValid,
                    errors |-> IF IsDef(step.errors) THEN Get(step.errors)
                               ELSE @.errors]]
           ELSE sv

(* wizardStore.registerStep *)
StoreRegisterSteps(ss, step) ==
  LET i == findIndex(ss, step.id) IN
  IF i = -1
    THEN Append(ss, [id |-> step.id, title |-> step.title,
                     optional |-> step.optional,
                     isValid |-> Some(OrElse(step.isValid, FALSE)),
                     errors |-> Some(OrElse(step.errors, << >>)),
                     data |-> step.data])
    ELSE [ss EXCEPT ![i + 1] =
            [@ EXCEPT !.title = IF step.title # "" THEN step.title ELSE @,
                      !.optional = IF IsDef(step.optional) THEN step.optional ELSE @,
                      !.isValid = IF IsDef(step.isValid) THEN step.isValid ELSE @,
                      !.errors = IF IsDef(step.errors) THEN step.errors ELSE @]]

StoreRegisterValidation(ss, sv, step) ==
  LET i == findIndex(ss, step.id) IN
  IF i = -1
    THEN IF step.id \in DOMAIN sv
           THEN sv
           ELSE PutValidation(sv, step.id,
                  [isValid |-> OrElse(step.isValid, FALSE),
                   errors |-> OrElse(step.errors, << >>)])
    ELSE
      LET old == At(ss, i)
          \* "Update validation state if provided" (lines 128-138)
          sv1 == IF IsDef(step.isValid) /\ step.isValid # old.isValid
                   THEN IF step.id \in DOMAIN sv
                          THEN [sv EXCEPT ![step.id].isValid = Get(step.isValid)]
                          ELSE PutValidation(sv, step.id,
                                 [isValid |-> Get(step.isValid),
                                  errors |-> OrElse(step.errors, << >>)])
                   ELSE sv
          \* "Update errors if provided" (lines 141-151)
          sv2 == IF IsDef(step.errors)
                   THEN IF step.id \in DOMAIN sv1
                          THEN [sv1 EXCEPT ![step.id].errors = Get(step.errors)]
                          ELSE PutValidation(sv1, step.id,
                                 [isValid |-> OrElse(step.isValid, FALSE),
                                  errors |-> Get(step.errors)])
                   ELSE sv1
      IN sv2

(* "Initialize step data if not already present" (lines 155-157) *)
StoreRegisterData(sd, step) ==
  IF HasData(sd, step.id) THEN sd
  ELSE PutData(sd, step.id, OrElse(step.data, EmptyRec))

(* createWizardContext(...).registerStep: the component's own step list.   *)
(* Its closing "ensure step data exists" reads the computed stepsData,     *)
(* which holds an object for every id of the list, so it assigns nothing.  *)
ContextRegisterSteps(ss, step) ==
  LET i == findIndex(ss, step.id) IN
  IF i = -1
    THEN Append(ss, [id |-> step.id, title |-> step.title,
                     optional |-> Some(Truthy(step.optional)),
                     isValid |-> Undef, errors |-> Undef, data |-> Undef])
    ELSE [ss EXCEPT ![i + 1] =
            [@ EXCEPT !.title = IF step.title # "" THEN step.title ELSE @,
                      !.optional = IF IsDef(step.optional) THEN step.optional ELSE @]]

-----------------------------------------------------------------------------
(* Validation Engine.                                                      *)
(* A step component (updateStepComponent) is [validate, schema]:           *)
(*   validate: "absent", or what the custom validate() does when called:   *)
(*             returns "true" / "false", returns the string "msg", or      *)
(*             "throws" an error whose message is ThrownMessage            *)
(*   schema:   "absent", or "required" (a yup object schema that requires  *)
(*             every key of RequiredKeys)                                  *)

RequiredKeys == << "a", "b" >>

RequiredMessage(k) ==
  CASE k = "a" -> "a is required"
    [] k = "b" -> "b is required"

(* err.inner.map(e => e.message) of validate(data, {abortEarly: false}) *)
SchemaErrors(d) ==
  LET missing == SelectSeq(RequiredKeys, LAMBDA k : k \notin DOMAIN d)
  IN [i \in 1..Len(missing) |-> RequiredMessage(missing[i])]

SchemaAccepts(d) == SchemaErrors(d) = << >>

NoComponent == [validate |-> "absent", schema |-> "absent"]

ThrownMessage == "boom"

(* JavaScript truthiness of what a validator returned *)
TruthyResult(r) == r \in {"true", "msg"}

(* stepComponents[id], with the optional chaining of the callers *)
ComponentOf(sc, id) == IF id \in DOMAIN sc THEN sc[id] ELSE NoComponent

(* updateStepValidation on the validation record and on the step list *)
SetValidation(sv, id, isValid, errors) ==
  PutValidation(sv, id, [isValid |-> isValid, errors |-> errors])

SetStepValidity(ss, id, isValid, errors) ==
  LET i == getStepIndexById(ss, id) IN
  IF i = -1 THEN ss
  ELSE [ss EXCEPT ![i + 1] = [@ EXCEPT !.isValid = Some(isValid),
                                      !.errors = Some(errors)]]

(* What a validateStep call returns and records:                           *)
(* [ret, rec] with ret the value the promise resolves to ("throws" when    *)
(* it rejects) and rec the optional [isValid, errors] written to both      *)
(* stepsValidation[id] and the step descriptor.                            *)
Outcome(ret, rec) == [ret |-> ret, rec |-> rec]
Recorded(isValid, errors) == Some([isValid |-> isValid, errors |-> errors])

(* useWizardState.validateStep *)
StateValidateStep(ss, sd, sc, id, lazyValidation) ==
  LET stepData == getStepData(sd, id)
      c == ComponentOf(sc, id)
  IN
  IF getStepIndexById(ss, id) = -1 THEN Outcome("false", Undef)
  ELSE IF lazyValidation /\ ~Interacted(stepData)
    THEN Outcome("true", Recorded(TRUE, << >>))
  ELSE IF c.validate # "absent"
    THEN Outcome(c.validate, Undef)
  ELSE IF c.schema # "absent"
    THEN IF SchemaAccepts(stepData)
           THEN Outcome("true", Recorded(TRUE, << >>))
           ELSE IF lazyValidation /\ ~Interacted(stepData)
                  THEN Outcome("true", Recorded(TRUE, SchemaErrors(stepData)))
                  ELSE Outcome("false", Recorded(FALSE, SchemaErrors(stepData)))
  ELSE Outcome("true", Recorded(TRUE, << >>))

(* wizardStore.validateStep *)
StoreValidateStep(ss, sd, sc, id, lazyValidation) ==
  LET stepData == getStepData(sd, id)
      c == ComponentOf(sc, id)
  IN
  IF getStepIndexById(ss, id) = -1 THEN Outcome("false", Undef)
  ELSE IF c.validate # "absent"
    THEN IF c.validate = "throws"
           THEN Outcome("false", Recorded(FALSE, << ThrownMessage >>))
         ELSE IF TruthyResult(c.validate)
           THEN Outcome(c.validate, Recorded(TRUE, << >>))
           ELSE Outcome(c.validate, Undef)
  ELSE IF c.schema # "absent"
    THEN IF SchemaAccepts(stepData)
           THEN Outcome("true", Recorded(TRUE, << >>))
           ELSE IF lazyValidation /\ ~Interacted(stepData)
                  THEN Outcome("true", Recorded(TRUE, SchemaErrors(stepData)))
                  ELSE Outcome("false", Recorded(FALSE, SchemaErrors(stepData)))
  ELSE Outcome("true", Recorded(TRUE, << >>))

ApplyToValidation(sv, id, o) ==
  IF IsDef(o.rec) THEN SetValidation(sv, id, Get(o.rec).isValid, Get(o.rec).errors)
  ELSE sv

ApplyToSteps(ss, id, o) ==
  IF IsDef(o.rec) THEN SetStepValidity(ss, id, Get(o.rec).isValid, Get(o.rec).errors)
  ELSE ss

(* getStepValidation: the recorded error list *)
getStepValidation(sv, id) == IF id \in DOMAIN sv THEN sv[id].errors ELSE << >>

-----------------------------------------------------------------------------
(* Data Aggregator *)

(* useWizardState.updateStepData *)
StateUpdateStepData(sd, id, data) ==
  PutData(sd, id, Spread(getStepData(sd, id), data))

(* wizardStore.updateStepData: the merge, then _interacted = true *)
StoreUpdateStepData(sd, id, data) ==
  PutData(sd, id, Spread(Spread(getStepData(sd, id), data), Marker))

(* getFlattenedData of useWizardState and of wizardStore: every entry of   *)
(* stepsData in insertion order, keys starting with "_" skipped.           *)
Visible(d) == { k \in DOMAIN d : ~startsWith(k, "_") }
Restrict(d, keys) == [k \in keys |-> d[k]]

RECURSIVE FlattenFrom(_, _, _)
FlattenFrom(sd, i, result) ==
  IF i > Len(sd) THEN result
  ELSE FlattenFrom(sd, i + 1,
         Spread(result, Restrict(sd[i].data, Visible(sd[i].data))))

getFlattenedData(sd) == FlattenFrom(sd, 1, EmptyRec)

(* getFlattenedData of the wizard context: one entry per step of the list, *)
(* holding that step's data record as it is.                               *)
ContextGetFlattenedData(ss, sd) ==
  [id \in IdSet(ss) |-> getStepData(sd, id)]

-----------------------------------------------------------------------------
(* Navigation State Machine: derived values of useWizardState/wizardStore  *)

totalSteps == Len(steps)
isFirstStep == currentStepIndex = 0
isLastStep == currentStepIndex = Len(steps) - 1

HasCurrent == InRange(steps, currentStepIndex)
CurrentStep == At(steps, currentStepIndex)

(* !stepsValidation[id] || stepsValidation[id].isValid *)
currentStepIsValid ==
  IF HasCurrent /\ CurrentStep.id \in DOMAIN stepsValidation
    THEN stepsValidation[CurrentStep.id].isValid
    ELSE TRUE

canGoNext ==
  /\ currentStepIndex < Len(steps) - 1
  /\ ((HasCurrent /\ Truthy(CurrentStep.optional)) \/ currentStepIsValid)

canGoPrevious == currentStepIndex > 0

-----------------------------------------------------------------------------
(* The record of the most recent call: its name, the index it was given    *)
(* or resolved (existingStepIndex for registerStep, NoIndex when the call  *)
(* takes none), what it returned ("true" /                                 *)
(* "false", the id for registerStep, "void" for a call that returns        *)
(* nothing), the events the Wizard component emitted during it and the     *)
(* hooks it invoked: the methods of the current step's component           *)
(* ("validate", "getData", "showValidationErrors") and the context's       *)
(* "validateStep", in the order of their calls.                            *)

Call(op, index, ret, events) ==
  [op |-> op, index |-> index, ret |-> ret, events |-> events, hooks |-> << >>]

NoIndex == -1
Bool(b) == IF b THEN "true" ELSE "false"

StepChange(from, to) ==
  [type |-> "step-change", fromStepIndex |-> from, toStepIndex |-> to,
   fromStepId |-> IF InRange(steps, from) THEN At(steps, from).id ELSE "",
   toStepId |-> IF InRange(steps, to) THEN At(steps, to).id ELSE ""]

StepComplete(index, data) ==
  [type |-> "step-complete", stepIndex |-> index,
   stepId |-> At(steps, index).id, data |-> data]

Complete(data) == [type |-> "complete", data |-> data]

IsCore == impl \in {"state", "store"}

-----------------------------------------------------------------------------
(* Operations of useWizardState (impl = "state")                           *)

registerStep(step) ==
  /\ impl = "state"
  /\ steps' = StateRegisterSteps(steps, step)
  /\ stepsValidation' = StateRegisterValidation(steps, stepsValidation, step)
  /\ last' = Call("registerStep", findIndex(steps, step.id), step.id, << >>)
  /\ UNCHANGED << pending, completed, eventLayer, impl, currentStepIndex, stepsData, stepComponents, stepRefs,
                  currentValidationErrors >>

updateStepData(id, data) ==
  /\ impl = "state"
  /\ stepsData' = StateUpdateStepData(stepsData, id, data)
  /\ last' = Call("updateStepData", NoIndex, "void", << >>)
  /\ UNCHANGED << pending, completed, eventLayer, impl, steps, currentStepIndex, stepsValidation, stepComponents,
                  stepRefs, currentValidationErrors >>

validateStep(id, lazyValidation) ==
  /\ impl = "state"
  /\ LET o == StateValidateStep(steps, stepsData, stepComponents, id, lazyValidation)
     IN /\ stepsValidation' = ApplyToValidation(stepsValidation, id, o)
        /\ steps' = ApplyToSteps(steps, id, o)
        /\ last' = Call(IF lazyValidation THEN "validateStepLazy" ELSE "validateStep",
                        NoIndex, o.ret, << >>)
  /\ UNCHANGED << pending, completed, eventLayer, impl, currentStepIndex, stepsData, stepComponents, stepRefs,
                  currentValidationErrors >>

-----------------------------------------------------------------------------
(* Operations of wizardStore (impl = "store")                              *)

Store_registerStep(step) ==
  /\ impl = "store"
  /\ steps' = StoreRegisterSteps(steps, step)
  /\ stepsValidation' = StoreRegisterValidation(steps, stepsValidation, step)
  /\ stepsData' = StoreRegisterData(stepsData, step)
  /\ last' = Call("registerStep", findIndex(steps, step.id), step.id, << >>)
  /\ UNCHANGED << pending, completed, eventLayer, impl, currentStepIndex, stepComponents, stepRefs,
                  currentValidationErrors >>

Store_updateStepData(id, data) ==
  /\ impl = "store"
  /\ stepsData' = StoreUpdateStepData(stepsData, id, data)
  /\ last' = Call("updateStepData", NoIndex, "void", << >>)
  /\ UNCHANGED << pending, completed, eventLayer, impl, steps, currentStepIndex, stepsValidation, stepComponents,
                  stepRefs, currentValidationErrors >>

Store_validateStep(id, lazyValidation) ==
  /\ impl = "store"
  /\ LET o == StoreValidateStep(steps, stepsData, stepComponents, id, lazyValidation)
     IN /\ stepsValidation' = ApplyToValidation(stepsValidation, id, o)
        /\ steps' = ApplyToSteps(steps, id, o)
        /\ last' = Call(IF lazyValidation THEN "validateStepLazy" ELSE "validateStep",
                        NoIndex, o.ret, << >>)
  /\ UNCHANGED << pending, completed, eventLayer, impl, currentStepIndex, stepsData, stepComponents, stepRefs,
                  currentValidationErrors >>

(* createStepStore(...).validate with a custom options.validate that       *)
(* returns / throws r: the step store reports to the wizardStore.          *)
StepStoreValidate(r) ==
  IF r = "throws" THEN Outcome("throws", Undef)
  ELSE IF r # "true"
    THEN Outcome("false", Recorded(FALSE, IF r = "msg" THEN << "msg" >> ELSE << >>))
    ELSE Outcome("true", Recorded(TRUE, << >>))

StepStore_validate(id, r) ==
  /\ impl = "store"
  /\ LET o == StepStoreValidate(r)
     IN /\ stepsValidation' = ApplyToValidation(stepsValidation, id, o)
        /\ steps' = ApplyToSteps(steps, id, o)
        /\ last' = Call("stepStoreValidate", NoIndex, o.ret, << >>)
  /\ UNCHANGED << pending, completed, eventLayer, impl, currentStepIndex, stepsData, stepComponents, stepRefs,
                  currentValidationErrors >>

-----------------------------------------------------------------------------
(* Operations whose code is the same in useWizardState and wizardStore     *)

updateStepValidation(id, isValid, errors) ==
  /\ IsCore
  /\ stepsValidation' = SetValidation(stepsValidation, id, isValid, errors)
  /\ steps' = SetStepValidity(steps, id, isValid, errors)
  /\ last' = Call("updateStepValidation", NoIndex, "void", << >>)
  /\ UNCHANGED << pending, completed, eventLayer, impl, currentStepIndex, stepsData, stepComponents, stepRefs,
                  currentValidationErrors >>

updateStepComponent(id, component) ==
  /\ IsCore
  /\ stepComponents' = [k \in (DOMAIN stepComponents) \cup {id} |->
                          IF k = id THEN component ELSE stepComponents[k]]
  /\ last' = Call("updateStepComponent", NoIndex, "void", << >>)
  /\ UNCHANGED << pending, completed, eventLayer, impl, steps, currentStepIndex, stepsData, stepsValidation,
                  stepRefs, currentValidationErrors >>

(* goToStep: the new position and the value returned *)
GoToStepAccepts(ss, index) == index >= 0 /\ index < Len(ss)

(* goToStep without its range check *)
goToStep_Unchecked(index) ==
  /\ IsCore
  /\ currentStepIndex' = index
  /\ last' = Call("goToStep", index, "true", << >>)
  /\ UNCHANGED << pending, completed, eventLayer, impl, steps, stepsData, stepsValidation, stepComponents,
                  stepRefs, currentValidationErrors >>

goToStep(index) ==
  /\ IsCore
  /\ currentStepIndex' = IF GoToStepAccepts(steps, index) THEN index
                         ELSE currentStepIndex
  /\ last' = Call("goToStep", index, Bool(GoToStepAccepts(steps, index)), << >>)
  /\ UNCHANGED << pending, completed, eventLayer, impl, steps, stepsData, stepsValidation, stepComponents,
                  stepRefs, currentValidationErrors >>

goToStepById(id) ==
  /\ IsCore
  /\ LET stepIndex == getStepIndexById(steps, id)
         ok == stepIndex # -1 /\ GoToStepAccepts(steps, stepIndex)
     IN /\ currentStepIndex' = IF ok THEN stepIndex ELSE currentStepIndex
        /\ last' = Call("goToStepById", stepIndex, Bool(ok), << >>)
  /\ UNCHANGED << pending, completed, eventLayer, impl, steps, stepsData, stepsValidation, stepComponents,
                  stepRefs, currentValidationErrors >>

goToNextStep ==
  /\ IsCore
  /\ currentStepIndex' = IF canGoNext THEN currentStepIndex + 1 ELSE currentStepIndex
  /\ last' = Call("goToNextStep", NoIndex, Bool(canGoNext), << >>)
  /\ UNCHANGED << pending, completed, eventLayer, impl, steps, stepsData, stepsValidation, stepComponents,
                  stepRefs, currentValidationErrors >>

(* a goToPrevStep that asks for a valid current step *)
goToPrevStep_Gated ==
  /\ IsCore
  /\ currentStepIndex' = IF canGoPrevious /\ currentStepIsValid
                           THEN currentStepIndex - 1 ELSE currentStepIndex
  /\ last' = Call("goToPrevStep", NoIndex, Bool(canGoPrevious /\ currentStepIsValid),
                  << >>)
  /\ UNCHANGED << pending, completed, eventLayer, impl, steps, stepsData, stepsValidation, stepComponents,
                  stepRefs, currentValidationErrors >>

goToPrevStep ==
  /\ IsCore
  /\ currentStepIndex' = IF canGoPrevious THEN currentStepIndex - 1
                         ELSE currentStepIndex
  /\ last' = Call("goToPrevStep", NoIndex, Bool(canGoPrevious), << >>)
  /\ UNCHANGED << pending, completed, eventLayer, impl, steps, stepsData, stepsValidation, stepComponents,
                  stepRefs, currentValidationErrors >>

(* a reset that also forgets the registered steps *)
reset_ForgetsSteps ==
  /\ IsCore
  /\ currentStepIndex' = 0
  /\ steps' = << >>
  /\ stepsData' = << >>
  /\ stepsValidation' = NoValidation
  /\ last' = Call("reset", NoIndex, "void", << >>)
  /\ UNCHANGED << pending, completed, eventLayer, impl, stepComponents, stepRefs, currentValidationErrors >>

reset ==
  /\ IsCore
  /\ currentStepIndex' = 0
  /\ stepsData' = << >>
  /\ stepsValidation' = NoValidation
  /\ last' = Call("reset", NoIndex, "void", << >>)
  /\ UNCHANGED << pending, completed, eventLayer, impl, steps, stepComponents, stepRefs, currentValidationErrors >>

-----------------------------------------------------------------------------
(* The Wizard component (impl = "wizard").                                 *)
(* steps / currentStepIndex are the component's refs; stepsData and        *)
(* stepsValidation belong to the useWizardState instance that              *)
(* createWizardContext creates, whose own step list is InnerSteps.         *)
(* stepRefs[id] is what the component of step id exposes:                  *)
(*   validate: "absent", or what its validate() returns at present         *)
(*   getData, showValidationErrors: whether the method exists              *)

InnerSteps == << >>

CurrentRef == stepRefs[CurrentStep.id]

(* validateCurrentStep: [ret, errors] with ret what it resolves to         *)
(* ("throws" when the step's validate() rejects) and errors the new        *)
(* currentValidationErrors                                                 *)
WizardValidateCurrentStep ==
  IF ~HasCurrent
    THEN [ret |-> "true", errors |-> currentValidationErrors, hooks |-> << >>]
  ELSE IF CurrentRef.validate # "absent"
    THEN [ret |-> CurrentRef.validate, errors |-> << >>,
          hooks |-> << "validate" >>]
  ELSE
    LET o == StateValidateStep(InnerSteps, stepsData, stepComponents,
                               CurrentStep.id, FALSE)
        sv == ApplyToValidation(stepsValidation, CurrentStep.id, o)
    IN [ret |-> o.ret,
        errors |-> IF o.ret = "true" THEN << >>
                   ELSE getStepValidation(sv, CurrentStep.id),
        hooks |-> << "validateStep" >>]

(* the methods of the current step's component that getCurrentStepData     *)
(* and the refusal branch of goToNextStep call                             *)
GetDataHooks == IF HasCurrent /\ CurrentRef.getData THEN << "getData" >> ELSE << >>

ShowErrorsHooks ==
  IF ~HasCurrent THEN << >>
  ELSE IF CurrentRef.showValidationErrors THEN << "showValidationErrors" >>
  ELSE IF CurrentRef.validate # "absent" THEN << "validate" >>
  ELSE << >>

(* getCurrentStepData: << >> stands for null *)
WizardCurrentStepData ==
  IF HasCurrent /\ CurrentRef.getData
    THEN Some(getStepData(stepsData, CurrentStep.id))
    ELSE Undef

Result(ret, index, errors, events, hooks) ==
  [ret |-> ret, index |-> index, errors |-> errors, events |-> events,
   hooks |-> hooks]

(* JavaScript truthiness of what validateCurrentStep resolved to *)
Passed(v) == TruthyResult(v.ret)

(* a rejection of validateCurrentStep rejects the caller *)
Rejected(v) == Result("throws", currentStepIndex, v.errors, << >>, v.hooks)

(* Wizard.vue goToStep *)
WizardGoToStep(index) ==
  IF index < 0 \/ index >= Len(steps)
    THEN Result("false", currentStepIndex, currentValidationErrors, << >>, << >>)
  ELSE IF index # currentStepIndex
    THEN LET v == WizardValidateCurrentStep IN
         IF v.ret = "throws" THEN Rejected(v)
         ELSE IF ~Passed(v) /\ index > currentStepIndex
           THEN Result("false", currentStepIndex, v.errors, << >>, v.hooks)
           ELSE Result("true", index, v.errors,
                       << StepChange(currentStepIndex, index) >>, v.hooks)
  ELSE Result("true", currentStepIndex, currentValidationErrors, << >>, << >>)

(* Wizard.vue handleComplete *)
WizardHandleComplete ==
  LET v == WizardValidateCurrentStep
      d == WizardCurrentStepData
  IN IF v.ret = "throws" THEN Rejected(v)
     ELSE IF ~Passed(v)
       THEN Result("false", currentStepIndex, v.errors, << >>, v.hooks)
       ELSE Result("true", currentStepIndex, v.errors,
              (IF IsDef(d) THEN << StepComplete(currentStepIndex, Get(d)) >>
               ELSE << >>)
              \o << Complete(ContextGetFlattenedData(steps, stepsData)) >>,
              v.hooks \o GetDataHooks)

(* Wizard.vue goToNextStep *)
WizardGoToNextStep ==
  LET v == WizardValidateCurrentStep
      d == WizardCurrentStepData
      g == WizardGoToStep(currentStepIndex + 1)
      h == WizardHandleComplete
  IN IF v.ret = "throws" THEN Rejected(v)
     ELSE IF ~Passed(v)
       THEN Result("false", currentStepIndex, v.errors, << >>,
                   v.hooks \o ShowErrorsHooks)
     ELSE IF isLastStep THEN [h EXCEPT !.hooks = v.hooks \o h.hooks]
     ELSE Result(g.ret, g.index, g.errors,
            (IF IsDef(d) THEN << StepComplete(currentStepIndex, Get(d)) >>
             ELSE << >>) \o g.events,
            v.hooks \o GetDataHooks \o g.hooks)

(* the positions step-complete has been emitted for during the present    *)
(* visit, after a call that emitted events and left the position at index *)
CompletedAfter(index, events) ==
  IF index # currentStepIndex THEN {}
  ELSE completed \cup { events[i].stepIndex :
                          i \in { k \in 1..Len(events) :
                                    events[k].type = "step-complete" } }

WizardNavigate(op, index, r) ==
  /\ impl = "wizard"
  /\ currentStepIndex' = r.index
  /\ currentValidationErrors' = r.errors
  /\ completed' = CompletedAfter(r.index, r.events)
  /\ last' = [Call(op, index, r.ret, r.events) EXCEPT !.hooks = r.hooks]
  /\ UNCHANGED << pending, eventLayer, impl, steps, stepsData, stepsValidation,
                  stepComponents, stepRefs >>

Wizard_goToStep(index) == WizardNavigate("goToStep", index, WizardGoToStep(index))

Wizard_goToNextStep == WizardNavigate("goToNextStep", NoIndex, WizardGoToNextStep)

Wizard_goToPrevStep ==
  WizardNavigate("goToPrevStep", NoIndex, WizardGoToStep(currentStepIndex - 1))

Wizard_handleComplete ==
  WizardNavigate("handleComplete", NoIndex, WizardHandleComplete)

(* processSlots: one descriptor per child of the default slot; a child     *)
(* whose id is in the list keeps its descriptor, a new one is appended.    *)
RECURSIVE ProcessSlots(_, _)
ProcessSlots(ss, slots) ==
  IF slots = << >> THEN ss
  ELSE ProcessSlots(
         IF findIndex(ss, Head(slots).id) # -1 THEN ss
         ELSE Append(ss, [id |-> Head(slots).id, title |-> Head(slots).title,
                          optional |-> Undef, isValid |-> Undef,
                          errors |-> Undef, data |-> Undef]),
         Tail(slots))

Wizard_processSlots(slots) ==
  /\ impl = "wizard"
  /\ steps' = ProcessSlots(steps, slots)
  /\ last' = Call("processSlots", NoIndex, "void", << >>)
  /\ UNCHANGED << pending, completed, eventLayer, impl, currentStepIndex, stepsData, stepsValidation,
                  stepComponents, stepRefs, currentValidationErrors >>

Context_registerStep(step) ==
  /\ impl = "wizard"
  /\ steps' = ContextRegisterSteps(steps, step)
  /\ last' = Call("registerStep", findIndex(steps, step.id), step.id, << >>)
  /\ UNCHANGED << pending, completed, eventLayer, impl, currentStepIndex, stepsData, stepsValidation,
                  stepComponents, stepRefs, currentValidationErrors >>

Context_updateStepData(id, data) ==
  /\ impl = "wizard"
  /\ stepsData' = StateUpdateStepData(stepsData, id, data)
  /\ last' = Call("updateStepData", NoIndex, "void", << >>)
  /\ UNCHANGED << pending, completed, eventLayer, impl, steps, currentStepIndex, stepsValidation, stepComponents,
                  stepRefs, currentValidationErrors >>

Context_updateStepValidation(id, isValid, errors) ==
  /\ impl = "wizard"
  /\ stepsValidation' = SetValidation(stepsValidation, id, isValid, errors)
  /\ last' = Call("updateStepValidation", NoIndex, "void", << >>)
  /\ UNCHANGED << pending, completed, eventLayer, impl, steps, currentStepIndex, stepsData, stepComponents,
                  stepRefs, currentValidationErrors >>

Context_validateStep(id, lazyValidation) ==
  /\ impl = "wizard"
  /\ LET o == StateValidateStep(InnerSteps, stepsData, stepComponents, id,
                                lazyValidation)
     IN /\ stepsValidation' = ApplyToValidation(stepsValidation, id, o)
        /\ last' = Call(IF lazyValidation THEN "validateStepLazy" ELSE "validateStep",
                        NoIndex, o.ret, << >>)
  /\ UNCHANGED << pending, completed, eventLayer, impl, steps, currentStepIndex, stepsData, stepComponents,
                  stepRefs, currentValidationErrors >>

(* context.goToStep / goToNextStep / goToPrevStep: each forwards to the    *)
(* useWizardState instance created inside createWizardContext.  That       *)
(* instance has its own step list (InnerSteps) and its own position        *)
(* (InnerStepIndex); the steps and currentStepIndex refs handed to         *)
(* createWizardContext are never written by these methods.                 *)
InnerStepIndex == 0

InnerCanGoNext == InnerStepIndex < Len(InnerSteps) - 1

InnerCanGoPrevious == InnerStepIndex > 0

ContextNavigate(op, index, ret) ==
  /\ impl = "wizard"
  /\ last' = Call(op, index, Bool(ret), << >>)
  /\ UNCHANGED << pending, completed, eventLayer, impl, steps, currentStepIndex, stepsData,
                  stepsValidation, stepComponents, stepRefs, currentValidationErrors >>

Context_goToStep(index) ==
  ContextNavigate("context.goToStep", index, GoToStepAccepts(InnerSteps, index))

Context_goToNextStep ==
  ContextNavigate("context.goToNextStep", NoIndex, InnerCanGoNext)

Context_goToPrevStep ==
  ContextNavigate("context.goToPrevStep", NoIndex, InnerCanGoPrevious)

(* The form of a step becomes valid or invalid: its exposed validate()     *)
(* answers differently from now on.                                        *)
StepFormChanges(id, verdict) ==
  /\ impl = "wizard"
  /\ stepRefs[id].validate \notin {"absent", verdict}
  /\ stepRefs' = [stepRefs EXCEPT ![id].validate = verdict]
  /\ last' = Call("formChanges", NoIndex, "void", << >>)
  /\ UNCHANGED << pending, completed, eventLayer, impl, steps, currentStepIndex, stepsData, stepsValidation,
                  stepComponents, currentValidationErrors >>

-----------------------------------------------------------------------------
(* useWizardEvents (impl = "events"): the listener registry with on, off   *)
(* and emit, and the wizard state whose navigation setupEventHandlers      *)
(* wraps.  A callback is a name; the callbacks of Throwers throw when      *)
(* they are invoked.                                                       *)

NoListeners == [e \in {} |-> << >>]

Throwers == {"hx"}

(* listeners.value[event], << >> when the event has no entry *)
ListenersOf(ls, event) == IF event \in DOMAIN ls THEN ls[event] ELSE << >>

(* on: the callback is pushed at the end of the event's list *)
On(ls, event, callback) ==
  [e \in DOMAIN ls \cup {event} |->
     IF e = event THEN Append(ListenersOf(ls, event), callback) ELSE ls[e]]

RECURSIVE Without(_, _)
Without(cbs, callback) ==
  IF cbs = << >> THEN << >>
  ELSE IF Head(cbs) = callback THEN Without(Tail(cbs), callback)
  ELSE << Head(cbs) >> \o Without(Tail(cbs), callback)

(* off: filters the callback out of the event's list; an event without an  *)
(* entry is left alone                                                     *)
Off(ls, event, callback) ==
  IF event \notin DOMAIN ls THEN ls
  ELSE [ls EXCEPT ![event] = Without(ls[event], callback)]

(* forEach(callback => callback(payload)): the callbacks invoked, in       *)
(* order, up to and including the first one that throws                    *)
RECURSIVE Invoked(_)
Invoked(cbs) ==
  IF cbs = << >> THEN << >>
  ELSE IF Head(cbs) \in Throwers THEN << Head(cbs) >>
  ELSE << Head(cbs) >> \o Invoked(Tail(cbs))

Invocation(callback, event, payload) ==
  [callback |-> callback, event |-> event, payload |-> payload]

(* emit: [calls, ret] with calls the invocations made and ret "throws"     *)
(* when a callback threw, "void" otherwise                                 *)
Emit(ls, event, payload) ==
  LET cbs == Invoked(ListenersOf(ls, event))
  IN [calls |-> [i \in 1..Len(cbs) |-> Invocation(cbs[i], event, payload)],
      ret |-> IF \E i \in 1..Len(cbs) : cbs[i] \in Throwers
                THEN "throws" ELSE "void"]

on(event, callback) ==
  /\ impl = "events"
  /\ listeners' = On(listeners, event, callback)
  /\ delivered' = << >>
  /\ last' = Call("on", NoIndex, "void", << >>)
  /\ UNCHANGED << pending, completed, impl, steps, currentStepIndex, stepsData, stepsValidation,
                  stepComponents, stepRefs, currentValidationErrors,
                  previousStepIndex >>

off(event, callback) ==
  /\ impl = "events"
  /\ listeners' = Off(listeners, event, callback)
  /\ delivered' = << >>
  /\ last' = Call("off", NoIndex, "void", << >>)
  /\ UNCHANGED << pending, completed, impl, steps, currentStepIndex, stepsData, stepsValidation,
                  stepComponents, stepRefs, currentValidationErrors,
                  previousStepIndex >>

emit(event, payload) ==
  /\ impl = "events"
  /\ delivered' = Emit(listeners, event, payload).calls
  /\ last' = Call("emit", NoIndex, Emit(listeners, event, payload).ret, << >>)
  /\ UNCHANGED << pending, completed, impl, steps, currentStepIndex, stepsData, stepsValidation,
                  stepComponents, stepRefs, currentValidationErrors,
                  previousStepIndex, listeners >>

(* setupEventHandlers: wizardState is a useWizardState of its own, and     *)
(* previousStepIndex is read from it once, at set-up.                      *)

Events_registerStep(step) ==
  /\ impl = "events"
  /\ steps' = StateRegisterSteps(steps, step)
  /\ stepsValidation' = StateRegisterValidation(steps, stepsValidation, step)
  /\ delivered' = << >>
  /\ last' = Call("registerStep", findIndex(steps, step.id), step.id, << >>)
  /\ UNCHANGED << pending, completed, impl, currentStepIndex, stepsData, stepComponents, stepRefs,
                  currentValidationErrors, previousStepIndex, listeners >>

(* the payload wrappedGoToStep builds *)
WrappedStepChange(from, to) ==
  [type |-> "step-change", fromStep |-> from, toStep |-> to,
   fromStepId |-> IF InRange(steps, from) THEN At(steps, from).id ELSE "",
   toStepId |-> IF InRange(steps, to) THEN At(steps, to).id ELSE ""]

(* wrappedGoToStep: [index, previous, calls, ret, events] *)
WrappedGoToStep(index) ==
  LET payload == WrappedStepChange(previousStepIndex, index)
      e == Emit(listeners, "step-change", payload)
  IN IF GoToStepAccepts(steps, index)
       THEN [index |-> index, previous |-> index, calls |-> e.calls,
             ret |-> IF e.ret = "throws" THEN "throws" ELSE "true",
             events |-> << payload >>]
       ELSE [index |-> currentStepIndex, previous |-> previousStepIndex,
             calls |-> << >>, ret |-> "false", events |-> << >>]

WrappedNavigate(index, r) ==
  /\ impl = "events"
  /\ currentStepIndex' = r.index
  /\ previousStepIndex' = r.previous
  /\ delivered' = r.calls
  /\ last' = Call("goToStep", index, r.ret, r.events)
  /\ UNCHANGED << pending, completed, impl, steps, stepsData, stepsValidation, stepComponents,
                  stepRefs, currentValidationErrors, listeners >>

(* a wrappedGoToStep that emits whatever goToStep returned *)
Events_goToStep_EmitsOnRefusal(index) ==
  LET payload == WrappedStepChange(previousStepIndex, index)
  IN WrappedNavigate(index,
       [WrappedGoToStep(index) EXCEPT
          !.calls = Emit(listeners, "step-change", payload).calls,
          !.events = << payload >>])

Events_goToStep(index) == WrappedNavigate(index, WrappedGoToStep(index))

(* the wrapped goToNextStep and goToPrevStep call the originals, which     *)
(* move the position themselves, and emit nothing                          *)
Events_goToNextStep ==
  /\ impl = "events"
  /\ currentStepIndex' = IF canGoNext THEN currentStepIndex + 1 ELSE currentStepIndex
  /\ delivered' = << >>
  /\ last' = Call("goToNextStep", NoIndex, Bool(canGoNext), << >>)
  /\ UNCHANGED << pending, completed, impl, steps, stepsData, stepsValidation, stepComponents,
                  stepRefs, currentValidationErrors, previousStepIndex, listeners >>

Events_goToPrevStep ==
  /\ impl = "events"
  /\ currentStepIndex' = IF canGoPrevious THEN currentStepIndex - 1
                         ELSE currentStepIndex
  /\ delivered' = << >>
  /\ last' = Call("goToPrevStep", NoIndex, Bool(canGoPrevious), << >>)
  /\ UNCHANGED << pending, completed, impl, steps, stepsData, stepsValidation, stepComponents,
                  stepRefs, currentValidationErrors, previousStepIndex, listeners >>

(* goToStepById is not wrapped, and the goToStep it calls is the original  *)
Events_goToStepById(id) ==
  /\ impl = "events"
  /\ LET stepIndex == getStepIndexById(steps, id)
         ok == stepIndex # -1 /\ GoToStepAccepts(steps, stepIndex)
     IN /\ currentStepIndex' = IF ok THEN stepIndex ELSE currentStepIndex
        /\ last' = Call("goToStepById", stepIndex, Bool(ok), << >>)
  /\ delivered' = << >>
  /\ UNCHANGED << pending, completed, impl, steps, stepsData, stepsValidation, stepComponents,
                  stepRefs, currentValidationErrors, previousStepIndex, listeners >>

-----------------------------------------------------------------------------
(* Inputs *)

Indexes == (-1)..MaxSteps

(* Step ids are interchangeable, so a new step takes the next id of the    *)
(* pool; NextId is also the one unregistered id the calls are tried with.  *)
Registered == IdSet(steps)
NextId == IdPool[Len(steps) + 1]
CanAdd == Len(steps) < MaxSteps
Known == Registered \cup (IF CanAdd THEN {NextId} ELSE {})

StepArgs(ids, titles, optionals, valids, errors, datas) ==
  [id : ids, title : titles, optional : optionals, isValid : valids,
   errors : errors, data : datas]

Validators == { [validate |-> v, schema |-> "absent"] : v \in {"true", "false"} }

RefShapes ==
  { [validate |-> "absent", getData |-> FALSE, showValidationErrors |-> FALSE],
    [validate |-> "true", getData |-> TRUE, showValidationErrors |-> TRUE] }

NoRef == [validate |-> "absent", getData |-> FALSE, showValidationErrors |-> FALSE]

(* the children of the default slot not yet in the list *)
NewSlots ==
  { [i \in 1..n |-> [id |-> IdPool[Len(steps) + i], title |-> "T1"]] :
      n \in 1..(MaxSteps - Len(steps)) }

-----------------------------------------------------------------------------
(* The state after construction *)

Init ==
  /\ impl \in {"state", "store", "wizard"}
  /\ steps = << >>
  /\ currentStepIndex = 0
  /\ stepsData = << >>
  /\ stepsValidation = NoValidation
  /\ stepComponents = [i \in {} |-> NoComponent]
  /\ stepRefs \in IF impl = "wizard" THEN [Ids -> RefShapes] ELSE {[i \in Ids |-> NoRef]}
  /\ currentValidationErrors = << >>
  /\ previousStepIndex = 0
  /\ listeners = NoListeners
  /\ delivered = << >>
  /\ pending = << >>
  /\ completed = {}
  /\ last = Call("init", NoIndex, "void", << >>)

-----------------------------------------------------------------------------
(* Spec: navigation.  Steps are registered once each, required or          *)
(* optional; validators are custom functions; the position is moved by     *)
(* every navigation operation with every target.                           *)

NavStepArgs ==
  StepArgs(IF CanAdd THEN {NextId} ELSE {}, {"T1"}, {Some(TRUE), Some(FALSE)},
           {Undef}, {Undef}, {Undef})

NavData == { [k \in {"a"} |-> 1] }

Next ==
  \/ \E step \in NavStepArgs : registerStep(step)
  \/ \E step \in NavStepArgs : Store_registerStep(step)
  \/ \E step \in NavStepArgs : Context_registerStep(step)
  \/ \E slots \in NewSlots : Wizard_processSlots(slots)
  \/ \E id \in Registered, b \in BOOLEAN : updateStepValidation(id, b, << >>)
  \/ \E id \in Registered, c \in Validators : updateStepComponent(id, c)
  \/ \E id \in Registered, data \in NavData : updateStepData(id, data)
  \/ \E id \in Registered, data \in NavData : Store_updateStepData(id, data)
  \/ \E id \in Registered, data \in NavData : Context_updateStepData(id, data)
  \/ \E id \in Registered : validateStep(id, FALSE)
  \/ \E id \in Registered : Store_validateStep(id, FALSE)
  \/ \E index \in Indexes : goToStep(index)
  \/ \E id \in Ids : goToStepById(id)
  \/ goToNextStep
  \/ goToPrevStep
  \/ reset
  \/ \E index \in Indexes : Wizard_goToStep(index)
  \/ Wizard_goToNextStep
  \/ Wizard_goToPrevStep
  \/ Wizard_handleComplete
  \/ \E id \in Registered, v \in {"true", "false"} : StepFormChanges(id, v)

Spec == Init /\ [][Next]_vars

-----------------------------------------------------------------------------
(* What the claims about navigation speak of *)

CurrentIsOptional == HasCurrent /\ Truthy(CurrentStep.optional)
CurrentIsRequired == HasCurrent /\ ~Truthy(CurrentStep.optional)
NextStepExists == currentStepIndex < Len(steps) - 1

(* what the validator of the current step reports when it is asked now *)
CurrentValidatorReport ==
  CASE impl = "state" ->
         StateValidateStep(steps, stepsData, stepComponents, CurrentStep.id, FALSE).ret
    [] impl = "store" ->
         StoreValidateStep(steps, stepsData, stepComponents, CurrentStep.id, FALSE).ret
    [] impl = "wizard" -> WizardValidateCurrentStep.ret

ValidatorReportsInvalid == HasCurrent /\ CurrentValidatorReport = "false"

(* the current step is invalid at present: by its validation record in     *)
(* useWizardState / wizardStore, by its validation in the Wizard component *)
CurrentIsInvalid ==
  IF IsCore THEN HasCurrent /\ ~currentStepIsValid
  ELSE HasCurrent /\ ~Passed(WizardValidateCurrentStep)

Refused ==
  /\ last'.ret = "false"
  /\ currentStepIndex' = currentStepIndex
  /\ last'.events = << >>

-----------------------------------------------------------------------------
(* C1: from a required current step whose validator reports invalid,       *)
(* goToNextStep returns false and leaves currentStepIndex as it was, in    *)
(* the Wizard component and in useWizardState / wizardStore.               *)
C1_NextRefusedOnInvalidRequired ==
  [][(last'.op = "goToNextStep" /\ CurrentIsRequired /\ ValidatorReportsInvalid)
       => (last'.ret = "false" /\ currentStepIndex' = currentStepIndex)]_vars

(* C2: from an optional current step that has a successor, goToNextStep    *)
(* returns true and moves the position forward by exactly one, whatever    *)
(* the validator reports, in all three implementations.                    *)
C2_NextAdvancesPastOptional ==
  [][(last'.op = "goToNextStep" /\ CurrentIsOptional /\ NextStepExists)
       => (last'.ret = "true" /\ currentStepIndex' = currentStepIndex + 1)]_vars

(* C3: the position is a valid index of the step list, or 0 while the list *)
(* is empty, after every sequence of operations.                           *)
C3_PositionInRange ==
  IF Len(steps) = 0 THEN currentStepIndex = 0
  ELSE currentStepIndex >= 0 /\ currentStepIndex < Len(steps)

(* an out-of-range goToStep was refused while the wizard stood on its last step *)
C3_Witness ==
  /\ last.op = "goToStep" /\ last.ret = "false"
  /\ (last.index < 0 \/ last.index >= Len(steps))
  /\ Len(steps) > 1 /\ currentStepIndex = Len(steps) - 1

(* C10: a forward goToStep / goToStepById to an existing step is refused   *)
(* (false, position unchanged, no step-change) when the current step is    *)
(* required and invalid, and accepted when it is optional or valid.        *)
C10_ForwardJumpGated ==
  [][(/\ last'.op \in {"goToStep", "goToStepById"}
      /\ InRange(steps, last'.index)
      /\ last'.index > currentStepIndex)
       => IF CurrentIsRequired /\ CurrentIsInvalid
            THEN Refused
            ELSE last'.ret = "true" /\ currentStepIndex' = last'.index]_vars

-----------------------------------------------------------------------------
(* SpecData: step registry and step data.  Steps are registered and        *)
(* registered again, with initial data (NewStepArgs) or the way            *)
(* useWizardStep and createStepStore register (isValid false, errors []);  *)
(* data is merged in, validation results are recorded, the wizard is       *)
(* reset and, in the Wizard component, completed.                          *)

NewStepArgs(ids) ==
  StepArgs(ids, {"T1"}, {Undef}, {Undef}, {Undef}, {Some([k \in {"a"} |-> 1])})

(* useWizardStep.ts / personalInfoStore.ts createStepStore *)
StepStoreArgs(ids) ==
  StepArgs(ids, {"T2"}, {Some(TRUE)}, {Some(FALSE)}, {Some(<< >>)}, {Undef})

DataStepArgs == NewStepArgs(Known) \cup StepStoreArgs(Known)

DataInputs == { [k \in {"a", "b", "_x"} |-> MaxVal] }

ValidationInputs ==
  { [isValid |-> TRUE, errors |-> << >>],
    [isValid |-> FALSE, errors |-> << "e1" >>] }

NextData ==
  \/ \E step \in DataStepArgs : registerStep(step)
  \/ \E step \in DataStepArgs : Store_registerStep(step)
  \/ \E step \in DataStepArgs : Context_registerStep(step)
  \/ \E id \in Registered, data \in DataInputs : updateStepData(id, data)
  \/ \E id \in Registered, data \in DataInputs : Store_updateStepData(id, data)
  \/ \E id \in Registered, data \in DataInputs : Context_updateStepData(id, data)
  \/ \E id \in Registered, v \in ValidationInputs :
       updateStepValidation(id, v.isValid, v.errors)
  \/ \E id \in Registered, v \in ValidationInputs :
       Context_updateStepValidation(id, v.isValid, v.errors)
  \/ \E id \in Registered : Context_validateStep(id, FALSE)
  \/ \E index \in 0..(MaxSteps - 1) : goToStep(index)
  \/ reset
  \/ Wizard_handleComplete

SpecData == Init /\ [][NextData]_vars

-----------------------------------------------------------------------------
(* What the claims about the registry and the data speak of *)

NoDuplicateIds == \A i, j \in 1..Len(steps) : steps[i].id = steps[j].id => i = j

(* the last call was a registerStep for an id that was already registered *)
RepeatRegistration(call) == call.op = "registerStep" /\ call.index # -1
NewRegistration(call) == call.op = "registerStep" /\ call.index = -1

(* stepsValidation[id], << >> when there is none *)
ValidationOf(sv, id) == IF id \in DOMAIN sv THEN Some(sv[id]) ELSE Undef

Descriptive(ss) ==
  [i \in 1..Len(ss) |-> [id |-> ss[i].id, title |-> ss[i].title,
                          optional |-> ss[i].optional]]

(* every key of what getFlattenedData() returns; the wizard context        *)
(* returns one record per step, whose keys are counted too                 *)
FlattenedKeys ==
  IF IsCore THEN DOMAIN getFlattenedData(stepsData)
  ELSE LET r == ContextGetFlattenedData(steps, stepsData)
       IN (DOMAIN r) \cup UNION { DOMAIN r[id] : id \in DOMAIN r }

-----------------------------------------------------------------------------
(* C4: the step list never holds two entries with one id, and a            *)
(* registerStep for a registered id leaves the number of steps and the     *)
(* order of their ids as they were.                                        *)
C4_RepeatRegistrationAddsNothing ==
  /\ []NoDuplicateIds
  /\ [][RepeatRegistration(last')
          => Len(steps') = Len(steps) /\ StepIds(steps') = StepIds(steps)]_vars

(* the full list was registered and one of its ids registered again *)
C4_Witness ==
  RepeatRegistration(last) /\ Len(steps) = MaxSteps /\ last.ret = steps[1].id

(* C5: a registerStep for a registered id leaves that step's data record   *)
(* and its validation record (isValid and errors) exactly as they were,    *)
(* also when it passes isValid = false and errors = [].                    *)
C5_RepeatRegistrationKeepsRecords ==
  [][RepeatRegistration(last')
       => /\ getStepData(stepsData', last'.ret) = getStepData(stepsData, last'.ret)
          /\ ValidationOf(stepsValidation', last'.ret)
               = ValidationOf(stepsValidation, last'.ret)]_vars

(* C6: registerStep of a new id with initial data d, then                  *)
(* updateStepData(id, p): getStepData(id) is d overwritten by p plus       *)
(* _interacted = true, and with that single step getFlattenedData() is     *)
(* the merged record without its reserved keys.                            *)
C6_RegisterThenUpdateRoundTrip ==
  [][\A p \in DataInputs :
       (/\ NewRegistration(last)
        /\ (updateStepData(last.ret, p) \/ Store_updateStepData(last.ret, p)))
       => LET id == last.ret
              d == OrElse(At(steps, findIndex(steps, id)).data, EmptyRec)
              merged == Spread(Spread(d, p), Marker)
          IN /\ getStepData(stepsData', id) = merged
             /\ Len(steps) = 1
                  => getFlattenedData(stepsData') = Restrict(merged, Visible(merged))]_vars

(* C7: what getFlattenedData() returns never has a key that begins with    *)
(* "_", in useWizardState, in wizardStore and in the wizard context.       *)
C7_NoReservedKeyInFlattenedData ==
  \A k \in FlattenedKeys : ~startsWith(k, "_")

-----------------------------------------------------------------------------
(* SpecValidation: the validation engine of useWizardState and wizardStore *)
(* with schemas.  Steps get a schema or a custom validator, their data is  *)
(* filled in field by field, and they are validated eagerly and lazily.    *)

InitCore == Init /\ IsCore

SchemaComponents ==
  { [validate |-> "absent", schema |-> "required"],
    [validate |-> "false", schema |-> "required"] }

FieldInputs == { [k \in {f} |-> 1] : f \in {"a", "b"} }

NextValidation ==
  \/ \E step \in NavStepArgs : registerStep(step)
  \/ \E step \in NavStepArgs : Store_registerStep(step)
  \/ \E id \in Registered, c \in SchemaComponents : updateStepComponent(id, c)
  \/ \E id \in Registered, data \in FieldInputs : updateStepData(id, data)
  \/ \E id \in Registered, data \in FieldInputs : Store_updateStepData(id, data)
  \/ \E id \in Registered, lazy \in BOOLEAN : validateStep(id, lazy)
  \/ \E id \in Registered, lazy \in BOOLEAN : Store_validateStep(id, lazy)

SpecValidation == InitCore /\ [][NextValidation]_vars

(* the schema of step id is its validator and rejects its data *)
SchemaRejects(id) ==
  /\ ComponentOf(stepComponents, id).validate = "absent"
  /\ ComponentOf(stepComponents, id).schema # "absent"
  /\ ~SchemaAccepts(getStepData(stepsData, id))

(* C9: validateStep(id, lazy = true) of a registered step whose schema     *)
(* rejects its data and whose _interacted marker is not set returns true   *)
(* and leaves a non-empty recorded error list for the step.                *)
C9_LazyValidationKeepsErrors ==
  [][\A id \in Registered :
       (/\ (validateStep(id, TRUE) \/ Store_validateStep(id, TRUE))
        /\ SchemaRejects(id)
        /\ ~Interacted(getStepData(stepsData, id)))
       => (last'.ret = "true" /\ getStepValidation(stepsValidation', id) # << >>)]_vars

-----------------------------------------------------------------------------
(* everything but the call record *)
program == << impl, steps, currentStepIndex, stepsData, stepsValidation,
              stepComponents, stepRefs, currentValidationErrors >>

-----------------------------------------------------------------------------
(* the current step has no entry in stepsValidation *)
CurrentHasNoValidation == HasCurrent /\ CurrentStep.id \notin DOMAIN stepsValidation

(* C12: in useWizardState / wizardStore a required current step without a  *)
(* validation entry (never validated, or the entry removed by reset) does  *)
(* not pass: canGoNext is false and goToNextStep leaves the position.      *)
C12_MissingValidationBlocksRequired ==
  [][(IsCore /\ CurrentIsRequired /\ CurrentHasNoValidation)
       => /\ ~canGoNext
          /\ last'.op = "goToNextStep"
               => last'.ret = "false" /\ currentStepIndex' = currentStepIndex]_vars

-----------------------------------------------------------------------------
(* step id has neither a custom validator nor a schema *)
NoValidator(id) == ComponentOf(stepComponents, id) = NoComponent

(* C13: a registered step with neither custom validator nor schema is      *)
(* always valid.  validateStep returns true and records isValid = true     *)
(* with no errors; and the Wizard component's goToNextStep advances past   *)
(* such a step when it is current, not the last, and its component         *)
(* exposes no validate method.                                             *)
C13_NoValidatorMeansValid ==
  [][/\ \A id \in Registered :
          ((validateStep(id, FALSE) \/ Store_validateStep(id, FALSE)) /\ NoValidator(id))
          => /\ last'.ret = "true"
             /\ ValidationOf(stepsValidation', id)
                  = Some([isValid |-> TRUE, errors |-> << >>])
     /\ (/\ impl = "wizard" /\ last'.op = "goToNextStep"
         /\ HasCurrent /\ NextStepExists
         /\ NoValidator(CurrentStep.id) /\ CurrentRef.validate = "absent")
         => last'.ret = "true" /\ currentStepIndex' = currentStepIndex + 1]_vars

-----------------------------------------------------------------------------
(* SpecCustom: custom validator functions.  A step's validator returns     *)
(* true, false or a string, or throws; steps are validated and the         *)
(* position is moved while such a validator is in place.                   *)

ValidatorResults == {"true", "false", "msg", "throws"}

CustomValidators == { [validate |-> r, schema |-> "absent"] : r \in ValidatorResults }

NextCustom ==
  \/ \E step \in NavStepArgs : registerStep(step)
  \/ \E step \in NavStepArgs : Store_registerStep(step)
  \/ \E slots \in NewSlots : Wizard_processSlots(slots)
  \/ \E id \in Registered, c \in CustomValidators : updateStepComponent(id, c)
  \/ \E id \in Registered : validateStep(id, FALSE)
  \/ \E id \in Registered : Store_validateStep(id, FALSE)
  \/ \E id \in Registered, r \in ValidatorResults : StepStore_validate(id, r)
  \/ \E index \in 0..(MaxSteps - 1) : goToStep(index)
  \/ goToNextStep
  \/ \E id \in Registered, r \in ValidatorResults : StepFormChanges(id, r)
  \/ \E index \in 0..(MaxSteps - 1) : Wizard_goToStep(index)
  \/ Wizard_goToNextStep
  \/ Wizard_handleComplete

SpecCustom == Init /\ [][NextCustom]_vars

(* what C14 expects of a validation whose validator returned r *)
ExpectedOfResult(r, id) ==
  IF r = "true"
    THEN /\ last'.ret = "true"
         /\ ValidationOf(stepsValidation', id) = Some([isValid |-> TRUE, errors |-> << >>])
    ELSE /\ last'.ret = "false"
         /\ ValidationOf(stepsValidation', id)
              = Some([isValid |-> FALSE,
                      errors |-> IF r = "msg" THEN << "msg" >> ELSE << >>])

(* C14: with a custom validator, a return value other than true makes the  *)
(* validation return false and leaves the step's record with isValid =     *)
(* false, a returned string as its one error message and no message        *)
(* otherwise; a true return records isValid = true with no errors.  For    *)
(* validateStep of useWizardState and wizardStore and for validate of      *)
(* createStepStore.                                                        *)
C14_CustomValidatorResultRecorded ==
  [][\A id \in Registered : \A r \in {"true", "false", "msg"} :
       (\/ /\ validateStep(id, FALSE) \/ Store_validateStep(id, FALSE)
           /\ ComponentOf(stepComponents, id).validate = r
        \/ StepStore_validate(id, r))
       => ExpectedOfResult(r, id)]_vars

(* the step's validator throws when called *)
ValidatorThrows(id) == ComponentOf(stepComponents, id).validate = "throws"

(* C15: a validator that throws never propagates: validateStep returns     *)
(* false and records the step as invalid with exactly one error message,   *)
(* and goToNextStep, goToStep and handleComplete of the Wizard on that     *)
(* step return false with the position unchanged.                          *)
C15_ThrowingValidatorIsCaught ==
  [][/\ \A id \in Registered :
          ((validateStep(id, FALSE) \/ Store_validateStep(id, FALSE)) /\ ValidatorThrows(id))
          => /\ last'.ret = "false"
             /\ IsDef(ValidationOf(stepsValidation', id))
             /\ ~Get(ValidationOf(stepsValidation', id)).isValid
             /\ Len(Get(ValidationOf(stepsValidation', id)).errors) = 1
     /\ (/\ impl = "wizard" /\ HasCurrent /\ CurrentRef.validate = "throws"
         /\ \/ Wizard_goToNextStep
            \/ Wizard_handleComplete
            \/ \E index \in 0..(Len(steps) - 1) :
                 index # currentStepIndex /\ Wizard_goToStep(index))
         => last'.ret = "false" /\ currentStepIndex' = currentStepIndex]_vars

-----------------------------------------------------------------------------
(* SpecEvents: events.  The Wizard component and useWizardEvents, whose    *)
(* callbacks are subscribed and removed while the position is moved by     *)
(* every navigation operation with every target, next to the core.         *)

MaxListeners == 2  \* callbacks subscribed to one event at a time

EventNames == {"step-change", "complete"}
Callbacks == {"h1", "h2", "hx"}
Payloads == { [type |-> "custom", value |-> v] : v \in 1..MaxVal }

InitEvents ==
  /\ impl = "events"
  /\ steps = << >>
  /\ currentStepIndex = 0
  /\ stepsData = << >>
  /\ stepsValidation = NoValidation
  /\ stepComponents = [i \in {} |-> NoComponent]
  /\ stepRefs = [i \in Ids |-> NoRef]
  /\ currentValidationErrors = << >>
  /\ previousStepIndex = 0
  /\ listeners = NoListeners
  /\ delivered = << >>
  /\ pending = << >>
  /\ completed = {}
  /\ last = Call("init", NoIndex, "void", << >>)

CanSubscribe(event) == Len(ListenersOf(listeners, event)) < MaxListeners

EventStepArgs ==
  StepArgs(IF CanAdd THEN {NextId} ELSE {}, {"T1"}, {Some(TRUE)},
           {Undef}, {Undef}, {Undef})

NextEvents ==
  \/ \E step \in EventStepArgs : registerStep(step)
  \/ \E step \in EventStepArgs : Store_registerStep(step)
  \/ \E slots \in NewSlots : Wizard_processSlots(slots)
  \/ \E id \in Registered, data \in NavData : updateStepData(id, data)
  \/ \E id \in Registered, data \in NavData : Store_updateStepData(id, data)
  \/ \E id \in Registered, data \in NavData : Context_updateStepData(id, data)
  \/ \E index \in Indexes : goToStep(index)
  \/ \E index \in Indexes : Wizard_goToStep(index)
  \/ Wizard_goToNextStep
  \/ Wizard_goToPrevStep
  \/ Wizard_handleComplete
  \/ \E id \in Registered, v \in {"true", "false"} : StepFormChanges(id, v)
  \/ \E step \in EventStepArgs : Events_registerStep(step)
  \/ \E index \in Indexes : Events_goToStep(index)
  \/ \E id \in Ids : Events_goToStepById(id)
  \/ Events_goToNextStep
  \/ Events_goToPrevStep
  \/ \E event \in EventNames, callback \in Callbacks :
       CanSubscribe(event) /\ on(event, callback)
  \/ \E event \in EventNames, callback \in Callbacks : off(event, callback)
  \/ \E event \in EventNames, payload \in Payloads : emit(event, payload)

SpecEvents == (Init \/ InitEvents) /\ [][NextEvents]_vars

(* the step-change events among the events of a call *)
StepChangesOf(events) == SelectSeq(events, LAMBDA e : e.type = "step-change")

(* the transition a step-change event reports, whatever its index fields   *)
(* are called                                                              *)
Reported(e) ==
  [from |-> IF "fromStepIndex" \in DOMAIN e THEN e.fromStepIndex ELSE e.fromStep,
   to |-> IF "toStepIndex" \in DOMAIN e THEN e.toStepIndex ELSE e.toStep,
   fromId |-> e.fromStepId, toId |-> e.toStepId]

(* one step-change event, reporting the move from position from to to *)
ReportsMove(events, from, to) ==
  /\ Len(StepChangesOf(events)) = 1
  /\ Reported(StepChangesOf(events)[1])
       = [from |-> from, to |-> to,
          fromId |-> At(steps, from).id, toId |-> At(steps, to).id]

(* C16: in the Wizard component and behind the wrappers of                 *)
(* setupEventHandlers, an operation that changes the position emits        *)
(* exactly one step-change event, whose from index and id are the position *)
(* and step before the move and whose to index and id are those after it,  *)
(* and an operation that leaves the position unchanged emits none.         *)
C16_OneStepChangePerMove ==
  [][(impl = "wizard" \/ impl = "events")
       => (IF currentStepIndex' # currentStepIndex
             THEN ReportsMove(last'.events, currentStepIndex, currentStepIndex')
             ELSE StepChangesOf(last'.events) = << >>)]_vars

(* the complete events among the events of a call *)
CompleteEventsOf(events) == SelectSeq(events, LAMBDA e : e.type = "complete")

(* C17: when handleComplete succeeds, the complete event carries the flat  *)
(* merge of the data keys of every step that has data, without reserved    *)
(* keys and not nested by step id, so that a step that was never filled    *)
(* contributes no key.                                                     *)
C17_CompleteCarriesFlattenedData ==
  [][(Wizard_handleComplete /\ last'.ret = "true")
       => /\ Len(CompleteEventsOf(last'.events)) = 1
          /\ CompleteEventsOf(last'.events)[1].data = getFlattenedData(stepsData)]_vars

InvocationsOf(cbs, event, payload) ==
  [i \in 1..Len(cbs) |-> Invocation(cbs[i], event, payload)]

(* C19: when emit is called and a subscribed callback throws, every        *)
(* callback subscribed to the event after it is still invoked with the     *)
(* payload, and emit does not throw to its caller.                         *)
C19_ThrowingCallbackIsIsolated ==
  [][\A event \in EventNames, payload \in Payloads :
       emit(event, payload)
       => /\ delivered' = InvocationsOf(ListenersOf(listeners, event), event, payload)
          /\ last'.ret = "void"]_vars

(* the callbacks of a list other than the given one, in the list's order *)
Others(cbs, callback) == SelectSeq(cbs, LAMBDA cb : cb # callback)

(* C20: over any sequence of on and off calls, emit invokes the callbacks   *)
(* subscribed to the event at that time, in the order in which they were   *)
(* subscribed and each with the payload: on puts a callback behind those   *)
(* subscribed before it, off removes the callback and keeps the order of   *)
(* the others, neither touches another event, and emit invokes exactly     *)
(* the event's callbacks, none of another event and none removed by off.   *)
C20_DeliveryInSubscriptionOrder ==
  [][\A event \in EventNames :
       /\ \A callback \in Callbacks :
            /\ on(event, callback)
                 => /\ ListenersOf(listeners', event)
                         = Append(ListenersOf(listeners, event), callback)
                    /\ \A e \in EventNames \ {event} :
                         ListenersOf(listeners', e) = ListenersOf(listeners, e)
            /\ off(event, callback)
                 => /\ ListenersOf(listeners', event)
                         = Others(ListenersOf(listeners, event), callback)
                    /\ \A e \in EventNames \ {event} :
                         ListenersOf(listeners', e) = ListenersOf(listeners, e)
       /\ \A payload \in Payloads :
            emit(event, payload)
              => /\ delivered'
                      = InvocationsOf(ListenersOf(listeners, event), event, payload)
                 /\ listeners' = listeners]_vars

-----------------------------------------------------------------------------
(* SpecUnknown: unknown step ids.  Every operation that takes a step id is *)
(* called with the ids of registered steps and with ids that no step has.  *)

getStepById(ss, id) ==
  IF findIndex(ss, id) = -1 THEN Undef ELSE Some(At(ss, findIndex(ss, id)))

UpdateStepTitle(ss, id, title) ==
  IF getStepIndexById(ss, id) = -1 THEN ss
  ELSE [ss EXCEPT ![getStepIndexById(ss, id) + 1].title = title]

updateStepTitle(id, title) ==
  /\ IsCore
  /\ steps' = UpdateStepTitle(steps, id, title)
  /\ last' = Call("updateStepTitle", NoIndex, "void", << >>)
  /\ UNCHANGED << pending, completed, eventLayer, impl, currentStepIndex, stepsData, stepsValidation,
                  stepComponents, stepRefs, currentValidationErrors >>

Titles == {"T2"}

NextUnknown ==
  \/ \E step \in NavStepArgs : registerStep(step)
  \/ \E step \in NavStepArgs : Store_registerStep(step)
  \/ \E id \in Ids, title \in Titles : updateStepTitle(id, title)
  \/ \E id \in Ids, b \in BOOLEAN : updateStepValidation(id, b, << >>)
  \/ \E id \in Ids, c \in Validators : updateStepComponent(id, c)
  \/ \E id \in Ids, data \in NavData : updateStepData(id, data)
  \/ \E id \in Ids, data \in NavData : Store_updateStepData(id, data)
  \/ \E id \in Ids, lazy \in BOOLEAN : validateStep(id, lazy)
  \/ \E id \in Ids, lazy \in BOOLEAN : Store_validateStep(id, lazy)
  \/ \E id \in Ids : goToStepById(id)

SpecUnknown == InitCore /\ [][NextUnknown]_vars

(* C21: operations addressed to an unregistered step id never change       *)
(* state and return the failure value: getStepIndexById returns -1,        *)
(* getStepById nothing, getStepData an empty record; updateStepTitle does  *)
(* nothing, goToStepById returns false with the position unchanged and     *)
(* validateStep returns false without creating or changing a validation    *)
(* record.                                                                 *)
C21_UnknownIdIsHarmless ==
  /\ [](\A id \in Ids \ Registered :
          /\ getStepIndexById(steps, id) = -1
          /\ getStepById(steps, id) = Undef
          /\ getStepData(stepsData, id) = EmptyRec)
  /\ [][\A id \in Ids \ Registered :
          /\ (\E title \in Titles : updateStepTitle(id, title)) => UNCHANGED program
          /\ goToStepById(id) => (last'.ret = "false" /\ UNCHANGED program)
          /\ (\E lazy \in BOOLEAN : validateStep(id, lazy) \/ Store_validateStep(id, lazy))
               => (last'.ret = "false" /\ UNCHANGED program)]_vars

-----------------------------------------------------------------------------
(* progress.  JavaScript numbers are IEEE 754 doubles: a positive double   *)
(* is m * 2^(e - DoublePrecision + 1) with a significand m of              *)
(* DoublePrecision bits, kept here as three limbs << l1, l2, l3 >>,        *)
(* m = l1 * Limb^2 + l2 * Limb + l3.  Every operation rounds its exact     *)
(* result to the nearest double, a tie to the even significand.            *)

DoublePrecision == 53

LimbBits == 18
Limb == 2^LimbBits
TopBits == DoublePrecision - 2 * LimbBits
Top == 2^TopBits

Zero == [m |-> << 0, 0, 0 >>, e |-> 0]

(* the next double above d *)
Succ(d) ==
  LET l3 == d.m[3] + 1
      l2 == d.m[2] + (l3 \div Limb)
      l1 == d.m[1] + (l2 \div Limb)
  IN IF l1 = Top THEN [m |-> << Top \div 2, 0, 0 >>, e |-> d.e + 1]
     ELSE [m |-> << l1, l2 % Limb, l3 % Limb >>, e |-> d.e]

(* d with the bits cut off behind it taken into account: guard is the      *)
(* first of them, sticky says that a later one is set                      *)
Rounded(d, guard, sticky) ==
  IF guard = 1 /\ (sticky \/ d.m[3] % 2 = 1) THEN Succ(d) ELSE d

(* the number of bits of n, for n < 2^30 *)
BitLength(n) ==
  IF n = 0 THEN 0 ELSE CHOOSE k \in 1..30 : 2^(k - 1) <= n /\ n < 2^k

(* the double of an integer 0 <= n < Top *)
FromNat(n) ==
  IF n = 0 THEN Zero
  ELSE [m |-> << n * 2^(TopBits - BitLength(n)), 0, 0 >>, e |-> BitLength(n) - 1]

(* a / b scaled by a power of two into the range from 1 up to 2 *)
RECURSIVE Normalise(_, _, _)
Normalise(a, b, e) ==
  IF a < b THEN Normalise(2 * a, b, e - 1)
  ELSE IF a >= 2 * b THEN Normalise(a, 2 * b, e + 1)
  ELSE [a |-> a, b |-> b, e |-> e]

(* a / b for integers a >= 0 and b > 0: long division, a limb at a time *)
Divide(a, b) ==
  IF a = 0 THEN Zero
  ELSE LET n == Normalise(a, b, 0)
           q1 == (n.a * (Top \div 2)) \div n.b
           r1 == (n.a * (Top \div 2)) % n.b
           q2 == (r1 * Limb) \div n.b
           r2 == (r1 * Limb) % n.b
           q3 == (r2 * Limb) \div n.b
           r3 == (r2 * Limb) % n.b
       IN Rounded([m |-> << q1, q2, q3 >>, e |-> n.e],
                  (2 * r3) \div n.b, (2 * r3) % n.b # 0)

(* d * k for an integer 0 <= k < 2^7: the exact product, shifted back to   *)
(* DoublePrecision bits                                                    *)
Times(d, k) ==
  IF d = Zero \/ k = 0 THEN Zero
  ELSE LET p3 == d.m[3] * k
           p2 == d.m[2] * k + (p3 \div Limb)
           p1 == d.m[1] * k + (p2 \div Limb)
           s == BitLength(p1) - TopBits
           low3 == p3 % Limb
           low2 == p2 % Limb
           l3 == (low3 \div 2^s) + (low2 % 2^s) * 2^(LimbBits - s)
           l2 == (low2 \div 2^s) + (p1 % 2^s) * 2^(LimbBits - s)
           l1 == p1 \div 2^s
       IN Rounded([m |-> << l1, l2, l3 >>, e |-> d.e + s],
                  IF s = 0 THEN 0 ELSE (low3 \div 2^(s - 1)) % 2,
                  s > 1 /\ low3 % 2^(s - 1) # 0)

(* x <= y for doubles that are not negative *)
Leq(x, y) ==
  \/ x = Zero
  \/ /\ y # Zero
     /\ \/ x.e < y.e
        \/ /\ x.e = y.e
           /\ \/ x.m[1] < y.m[1]
              \/ x.m[1] = y.m[1] /\ x.m[2] < y.m[2]
              \/ x.m[1] = y.m[1] /\ x.m[2] = y.m[2] /\ x.m[3] <= y.m[3]

(* progress with the position counted from 0 *)
progress_ZeroBased(ss, index) ==
  IF Len(ss) = 0 THEN Zero ELSE Times(Divide(index, Len(ss)), 100)

(* ((currentStepIndex + 1) / steps.length) * 100 *)
progress(ss, index) ==
  IF Len(ss) = 0 THEN Zero ELSE Times(Divide(index + 1, Len(ss)), 100)

(* SpecProgress: progress.  Up to MaxProgressSteps steps are registered    *)
(* in useWizardState and wizardStore and the position is moved by every    *)
(* navigation operation.                                                   *)

MaxProgressSteps == 3

ProgressStepArgs ==
  StepArgs(IF Len(steps) < MaxProgressSteps THEN {IdPool[Len(steps) + 1]} ELSE {},
           {"T1"}, {Some(TRUE), Some(FALSE)}, {Undef}, {Undef}, {Undef})

NextProgress ==
  \/ \E step \in ProgressStepArgs : registerStep(step)
  \/ \E step \in ProgressStepArgs : Store_registerStep(step)
  \/ \E id \in Registered, b \in BOOLEAN : updateStepValidation(id, b, << >>)
  \/ \E index \in (-1)..MaxProgressSteps : goToStep(index)
  \/ \E id \in Registered : goToStepById(id)
  \/ goToNextStep
  \/ goToPrevStep
  \/ reset

SpecProgress == InitCore /\ [][NextProgress]_vars

(* x and y are at most two doubles apart *)
Near(x, y) ==
  \/ x = y
  \/ y = Succ(x) \/ y = Succ(Succ(x))
  \/ x = Succ(y) \/ x = Succ(Succ(y))

(* C22 as stated: progress is 0 when there is no step and otherwise        *)
(* progress * totalSteps = (currentStepIndex + 1) * 100, so that it is     *)
(* 100 exactly on the last step and lies in (0, 100].                      *)
C22_ProgressIsExactShare ==
  LET p == progress(steps, currentStepIndex)
  IN IF totalSteps = 0 THEN p = Zero
     ELSE /\ Times(p, totalSteps) = FromNat((currentStepIndex + 1) * 100)
          /\ p # Zero /\ Leq(p, FromNat(100))
          /\ (p = FromNat(100)) = isLastStep

(* C22: progress is 0 when there is no step; otherwise it is 100 exactly   *)
(* on the last step, lies in (0, 100], and progress * totalSteps is        *)
(* (currentStepIndex + 1) * 100 up to rounding: at most two doubles away.  *)
C22_ProgressIsRoundedShare ==
  LET p == progress(steps, currentStepIndex)
  IN IF totalSteps = 0 THEN p = Zero
     ELSE /\ Near(Times(p, totalSteps), FromNat((currentStepIndex + 1) * 100))
          /\ p # Zero /\ Leq(p, FromNat(100))
          /\ (p = FromNat(100)) = isLastStep

(* the position was moved back to a step whose share of the steps is not   *)
(* a double                                                                *)
C22_Witness ==
  /\ last.op = "goToPrevStep" /\ last.ret = "true"
  /\ totalSteps = 3 /\ currentStepIndex = 1
  /\ Times(progress(steps, currentStepIndex), totalSteps) # FromNat(200)

-----------------------------------------------------------------------------
(* SpecAsync: Wizard.vue's navigation as the asynchronous functions they   *)
(* are.  A call runs to its first await when it is made and from one await *)
(* to the next each time it is resumed; between two of its segments other  *)
(* calls may be made or resumed.  WizardFooter binds its buttons straight  *)
(* to goToPrevStep, goToNextStep and handleComplete and never disables     *)
(* them, so a call can be made while another is suspended.                 *)
(* A suspended call is [op, pc, index, v, writes, d, late, at, emitted]:   *)
(*   pc      the await it is suspended at                                  *)
(*   index   goToStep's argument                                           *)
(*   v       what the validateCurrentStep it awaits resolves to            *)
(*   writes  whether that validateCurrentStep then sets the error list     *)
(*   d       what the getCurrentStepData it awaits resolves to             *)
(*   late    whether another call was suspended when this one was made     *)
(*   at      the position whose step that validateCurrentStep validated     *)
(*   emitted the events the call has emitted so far (history: the only     *)
(*           await reached after an emit is goToStep's inside goToNextStep) *)

MaxPending == 2

Suspended(op, pc, index, v, writes, d, late) ==
  [op |-> op, pc |-> pc, index |-> index, v |-> v, writes |-> writes, d |-> d,
   late |-> late, at |-> currentStepIndex]

(* a segment's outcome: the suspended call it leaves (Undef when the call  *)
(* has returned ret), the position, the error list and the events emitted  *)
Segment(next, ret, index, errors, events, hooks) ==
  [next |-> next, ret |-> ret, index |-> index, errors |-> errors,
   events |-> events, hooks |-> hooks]

Returns(ret, index, errors, events) ==
  Segment(Undef, ret, index, errors, events, << >>)

(* validateCurrentStep up to its await: the error list is cleared and the  *)
(* step's validator is called                                              *)
ClearedErrors == IF HasCurrent THEN << >> ELSE currentValidationErrors

AwaitsValidation(op, pc, index, late, events) ==
  LET v == WizardValidateCurrentStep
  IN Segment(Some(Suspended(op, pc, index, v,
                            HasCurrent /\ CurrentRef.validate = "absent"
                              /\ ~Passed(v),
                            Undef, late)
                    @@ [emitted |-> events]),
             "pending", currentStepIndex, ClearedErrors, events, v.hooks)

(* validateCurrentStep after its await *)
ErrorsAfter(c) == IF c.writes THEN c.v.errors ELSE currentValidationErrors

(* goToStep up to its await *)
AsyncGoToStep(op, index, late, events) ==
  IF index < 0 \/ index >= Len(steps)
    THEN Returns("false", currentStepIndex, currentValidationErrors, events)
  ELSE IF index # currentStepIndex
    THEN AwaitsValidation(op, "goToStep", index, late, events)
  ELSE Returns("true", currentStepIndex, currentValidationErrors, events)

(* goToStep after its await *)
AsyncGoToStepResumed(c) ==
  IF c.v.ret = "throws"
    THEN Returns("throws", currentStepIndex, ErrorsAfter(c), << >>)
  ELSE IF ~Passed(c.v) /\ c.index > currentStepIndex
    THEN Returns("false", currentStepIndex, ErrorsAfter(c), << >>)
  ELSE IF c.index # currentStepIndex
    THEN Returns("true", c.index, ErrorsAfter(c),
                 << StepChange(currentStepIndex, c.index) >>)
  ELSE Returns("true", currentStepIndex, ErrorsAfter(c), << >>)

(* handleComplete up to its first await *)
AsyncHandleComplete(op, late) ==
  AwaitsValidation(op, "handleComplete", NoIndex, late, << >>)

(* handleComplete between its two awaits *)
AsyncHandleCompleteValidated(c) ==
  IF c.v.ret = "throws"
    THEN Returns("throws", currentStepIndex, ErrorsAfter(c), << >>)
  ELSE IF ~Passed(c.v)
    THEN Returns("false", currentStepIndex, ErrorsAfter(c), << >>)
  ELSE Segment(Some([c EXCEPT !.pc = "handleCompleteData",
                              !.d = WizardCurrentStepData]),
               "pending", currentStepIndex, ErrorsAfter(c), << >>, GetDataHooks)

(* handleComplete after its second await *)
AsyncHandleCompleteData(c) ==
  Returns("true", currentStepIndex, currentValidationErrors,
          (IF IsDef(c.d) THEN << StepComplete(currentStepIndex, Get(c.d)) >>
           ELSE << >>)
          \o << Complete(ContextGetFlattenedData(steps, stepsData)) >>)

(* goToNextStep up to its first await *)
AsyncGoToNextStep(late) ==
  AwaitsValidation("goToNextStep", "goToNextStep", NoIndex, late, << >>)

(* goToNextStep between its two awaits *)
AsyncGoToNextStepValidated(c) ==
  IF c.v.ret = "throws"
    THEN Returns("throws", currentStepIndex, ErrorsAfter(c), << >>)
  ELSE IF ~Passed(c.v)
    THEN [Returns("false", currentStepIndex, ErrorsAfter(c), << >>)
            EXCEPT !.hooks = ShowErrorsHooks]
  ELSE IF isLastStep
    THEN LET h == AsyncHandleComplete(c.op, c.late)
         IN [h EXCEPT !.errors = IF HasCurrent THEN << >> ELSE ErrorsAfter(c)]
  ELSE Segment(Some([c EXCEPT !.pc = "goToNextStepData",
                              !.d = WizardCurrentStepData]),
               "pending", currentStepIndex, ErrorsAfter(c), << >>, GetDataHooks)

(* goToNextStep after its second await: the step-complete event, then      *)
(* goToStep with the position as it is now                                 *)
AsyncGoToNextStepData(c) ==
  AsyncGoToStep(c.op, currentStepIndex + 1, c.late,
                IF IsDef(c.d) THEN << StepComplete(currentStepIndex, Get(c.d)) >>
                ELSE << >>)

Resumed(c) ==
  CASE c.pc = "goToStep" -> AsyncGoToStepResumed(c)
    [] c.pc = "handleComplete" -> AsyncHandleCompleteValidated(c)
    [] c.pc = "handleCompleteData" -> AsyncHandleCompleteData(c)
    [] c.pc = "goToNextStep" -> AsyncGoToNextStepValidated(c)
    [] c.pc = "goToNextStepData" -> AsyncGoToNextStepData(c)

Without1(q, i) == SubSeq(q, 1, i - 1) \o SubSeq(q, i + 1, Len(q))

AsyncSegment(op, index, r, rest) ==
  /\ impl = "wizard"
  /\ currentStepIndex' = r.index
  /\ currentValidationErrors' = r.errors
  /\ pending' = IF IsDef(r.next) THEN Append(rest, Get(r.next)) ELSE rest
  /\ completed' = CompletedAfter(r.index, r.events)
  /\ last' = [Call(op, index, r.ret, r.events) EXCEPT !.hooks = r.hooks]
  /\ UNCHANGED << eventLayer, impl, steps, stepsData, stepsValidation,
                  stepComponents, stepRefs >>

CanCall == Len(pending) < MaxPending

Late == pending # << >>

Async_goToStep(index) ==
  /\ CanCall
  /\ AsyncSegment("goToStep", index,
                  AsyncGoToStep("goToStep", index, Late, << >>), pending)

Async_goToPrevStep ==
  /\ CanCall
  /\ AsyncSegment("goToPrevStep", NoIndex,
                  AsyncGoToStep("goToPrevStep", currentStepIndex - 1, Late, << >>),
                  pending)

Async_goToNextStep ==
  /\ CanCall
  /\ AsyncSegment("goToNextStep", NoIndex, AsyncGoToNextStep(Late), pending)

Async_handleComplete ==
  /\ CanCall
  /\ AsyncSegment("handleComplete", NoIndex,
                  AsyncHandleComplete("handleComplete", Late), pending)

Async_resume(i) ==
  /\ i \in 1..Len(pending)
  /\ AsyncSegment(pending[i].op, pending[i].index, Resumed(pending[i]),
                  Without1(pending, i))

InitAsync == Init /\ impl = "wizard"

NextAsync ==
  \/ \E slots \in NewSlots : Wizard_processSlots(slots)
  \/ \E id \in Registered, v \in {"true", "false"} : StepFormChanges(id, v)
  \/ \E id \in Registered, data \in NavData : Context_updateStepData(id, data)
  \/ \E index \in Indexes : Async_goToStep(index)
  \/ Async_goToPrevStep
  \/ Async_goToNextStep
  \/ Async_handleComplete
  \/ \E i \in 1..MaxPending : Async_resume(i)

SpecAsync == InitAsync /\ [][NextAsync]_vars

(* C23: at most one navigation is in flight: a navigation call made while  *)
(* an earlier one is still suspended at an await has no effect of its own  *)
(* on the position or on the events emitted, in the segment it runs when   *)
(* it is made and in every segment it runs when it is resumed.             *)
LateSegment ==
  \/ Late /\ Async_goToPrevStep
  \/ Late /\ Async_goToNextStep
  \/ Late /\ Async_handleComplete
  \/ Late /\ \E index \in Indexes : Async_goToStep(index)
  \/ \E i \in 1..Len(pending) : pending[i].late /\ Async_resume(i)

C23_OneNavigationInFlight ==
  [][LateSegment => (currentStepIndex' = currentStepIndex /\ last'.events = << >>)]_vars

-----------------------------------------------------------------------------
(* C24: goToPrevStep performs its transition without validating the        *)
(* current step: during the call neither the validate() of the step's      *)
(* component nor validateStep is invoked, and the validation records and   *)
(* the displayed validation errors are as they were before the call.       *)
Validating(hooks) ==
  \E i \in 1..Len(hooks) : hooks[i] \in {"validate", "validateStep"}

C24_PrevStepDoesNotValidate ==
  [][(goToPrevStep \/ Wizard_goToPrevStep)
       => (/\ ~Validating(last'.hooks)
           /\ stepsValidation' = stepsValidation
           /\ currentValidationErrors' = currentValidationErrors)]_vars

-----------------------------------------------------------------------------
(* C25: goToStep with a target equal to the current position (and in       *)
(* range) is a successful no-op: it returns true, the position stays, no   *)
(* validator is invoked and no step-change event is emitted.  For          *)
(* useWizardState, wizardStore, the Wizard component and wrappedGoToStep.  *)
C25_SameTargetIsNoOp ==
  [][\A index \in Indexes :
       (/\ goToStep(index) \/ Wizard_goToStep(index) \/ Events_goToStep(index)
        /\ GoToStepAccepts(steps, index)
        /\ index = currentStepIndex)
       => /\ last'.ret = "true"
          /\ currentStepIndex' = currentStepIndex
          /\ ~Validating(last'.hooks)
          /\ StepChangesOf(last'.events) = << >>]_vars

-----------------------------------------------------------------------------
(* SpecWizard: the Wizard component alone, with step components of every   *)
(* shape: with or without validate(), getData() and showValidationErrors() *)

WizardRefShapes ==
  [validate : {"absent", "true"}, getData : BOOLEAN,
   showValidationErrors : BOOLEAN]

InitWizard ==
  /\ impl = "wizard"
  /\ steps = << >>
  /\ currentStepIndex = 0
  /\ stepsData = << >>
  /\ stepsValidation = NoValidation
  /\ stepComponents = [i \in {} |-> NoComponent]
  /\ stepRefs \in [Ids -> WizardRefShapes]
  /\ currentValidationErrors = << >>
  /\ previousStepIndex = 0
  /\ listeners = NoListeners
  /\ delivered = << >>
  /\ pending = << >>
  /\ completed = {}
  /\ last = Call("init", NoIndex, "void", << >>)

NextWizard ==
  \/ \E slots \in NewSlots : Wizard_processSlots(slots)
  \/ \E id \in Registered, v \in {"true", "false"} : StepFormChanges(id, v)
  \/ \E id \in Registered, data \in NavData : Context_updateStepData(id, data)
  \/ \E index \in Indexes : Wizard_goToStep(index)
  \/ Wizard_goToNextStep
  \/ Wizard_goToPrevStep
  \/ Wizard_handleComplete

SpecWizard == InitWizard /\ [][NextWizard]_vars

(* the step-complete events among the events of a call *)
StepCompletesOf(events) == SelectSeq(events, LAMBDA e : e.type = "step-complete")

(* every event of the first type comes before every event of the second *)
Precedes(events, first, second) ==
  \A i, j \in 1..Len(events) :
    (events[i].type = first /\ events[j].type = second) => i < j

(* C26: a goToNextStep call that advances the position emits exactly one   *)
(* step-complete event, for the step it leaves: with that step's id and    *)
(* index (and, when the component has getData, its data), and before the   *)
(* step-change event of the call; whether or not the step's component      *)
(* exposes getData.                                                        *)
C26_StepCompleteOnAdvance ==
  [][(Wizard_goToNextStep /\ currentStepIndex' = currentStepIndex + 1)
       => LET sc == StepCompletesOf(last'.events)
          IN /\ Len(sc) = 1
             /\ sc[1].stepId = CurrentStep.id
             /\ sc[1].stepIndex = currentStepIndex
             /\ CurrentRef.getData
                  => sc[1].data = getStepData(stepsData, CurrentStep.id)
             /\ StepChangesOf(last'.events) # << >>
             /\ Precedes(last'.events, "step-complete", "step-change")]_vars

-----------------------------------------------------------------------------
(* C27: goToNextStep called on the last step while that step is valid      *)
(* delegates to completion: the position stays at totalSteps - 1, no       *)
(* step-change event is emitted and exactly one complete event is          *)
(* emitted.  In the Wizard component and in useWizardState / wizardStore.  *)
OnValidLastStep == HasCurrent /\ isLastStep /\ ~CurrentIsInvalid

C27_NextOnLastStepCompletes ==
  [][(last'.op = "goToNextStep" /\ OnValidLastStep)
       => /\ currentStepIndex' = totalSteps - 1
          /\ StepChangesOf(last'.events) = << >>
          /\ Len(CompleteEventsOf(last'.events)) = 1]_vars

-----------------------------------------------------------------------------
(* C28: handleComplete called while the current step is invalid returns    *)
(* false and emits neither a step-complete nor a complete event; when it   *)
(* succeeds on the final step, a step-complete event for that step is      *)
(* emitted, and before the complete event.                                 *)
C28_CompleteRefusedOrOrdered ==
  [][Wizard_handleComplete
       => /\ CurrentIsInvalid
               => (/\ last'.ret = "false"
                   /\ StepCompletesOf(last'.events) = << >>
                   /\ CompleteEventsOf(last'.events) = << >>)
          /\ (last'.ret = "true" /\ isLastStep)
               => (/\ \E i \in 1..Len(last'.events) :
                         /\ last'.events[i].type = "step-complete"
                         /\ last'.events[i].stepIndex = currentStepIndex
                   /\ CompleteEventsOf(last'.events) # << >>
                   /\ Precedes(last'.events, "step-complete", "complete"))]_vars

-----------------------------------------------------------------------------
(* C29: every forward navigation refused because the current step is       *)
(* invalid, by goToNextStep or by goToStep with a target after the current *)
(* position, asks the current step's component to display its errors: its  *)
(* showValidationErrors() is invoked when the component has one.           *)
Invokes(hooks, hook) == \E i \in 1..Len(hooks) : hooks[i] = hook

ForwardCall ==
  \/ Wizard_goToNextStep
  \/ \E index \in Indexes :
       InRange(steps, index) /\ index > currentStepIndex /\ Wizard_goToStep(index)

C29_RefusalRequestsErrorDisplay ==
  [][(/\ ForwardCall
      /\ CurrentIsInvalid
      /\ last'.ret = "false"
      /\ CurrentRef.showValidationErrors)
       => Invokes(last'.hooks, "showValidationErrors")]_vars

-----------------------------------------------------------------------------
(* C30: lazy suppression ends with the first data write.  Once             *)
(* updateStepData has been called for a registered step, validateStep      *)
(* with lazy = true on data the step's schema rejects returns false and    *)
(* records isValid = false with the schema's error messages.  In           *)
(* SpecValidation steps are registered without data and every write sets  *)
(* a field, so a step has a non-empty data record exactly when             *)
(* updateStepData has been called for it.                                  *)
Written(id) == getStepData(stepsData, id) # EmptyRec

C30_LazySuppressionEndsWithWrite ==
  [][\A id \in Registered :
       (/\ validateStep(id, TRUE) \/ Store_validateStep(id, TRUE)
        /\ Written(id)
        /\ SchemaRejects(id))
       => /\ last'.ret = "false"
          /\ id \in DOMAIN stepsValidation'
          /\ stepsValidation'[id] =
               [isValid |-> FALSE,
                errors |-> SchemaErrors(getStepData(stepsData, id))]]_vars

-----------------------------------------------------------------------------
(* SpecCollision: steps whose data share the key "a".  Steps are           *)
(* registered without data, every step's "a" is written with every value   *)
(* in every order, and the wizard is reset and written again.              *)

CollisionInputs == { [k \in {"a"} |-> v] : v \in 1..MaxVal }

NextCollision ==
  \/ \E step \in NavStepArgs : registerStep(step)
  \/ \E step \in NavStepArgs : Store_registerStep(step)
  \/ \E id \in Registered, data \in CollisionInputs : updateStepData(id, data)
  \/ \E id \in Registered, data \in CollisionInputs : Store_updateStepData(id, data)
  \/ reset

SpecCollision == InitCore /\ [][NextCollision]_vars

Holds(id, key) == key \in DOMAIN getStepData(stepsData, id)

(* C31: when two registered steps hold the same data key,                  *)
(* getFlattenedData returns the value of the step registered later,        *)
(* whatever the order in which their data was written, before and after a  *)
(* reset.                                                                  *)
C31_LastRegisteredStepWins ==
  \A i, j \in 1..Len(steps) :
    (i < j /\ Holds(steps[i].id, "a") /\ Holds(steps[j].id, "a"))
      => getFlattenedData(stepsData)["a"] = getStepData(stepsData, steps[j].id)["a"]

-----------------------------------------------------------------------------
(* SpecReset: the demo's step stores over the wizardStore, and             *)
(* useWizardState with steps that declare initial data.  createStepStore   *)
(* registers its step with data: options.initialData || {}, isValid false  *)
(* and no errors; resetWizard of WizardExample.vue resets the wizardStore  *)
(* and then every step store, in the order the stores were created.        *)

CreateStepStoreArgs ==
  StepArgs(IF CanAdd THEN {NextId} ELSE {}, {"T1"}, {Some(FALSE)}, {Some(FALSE)},
           {Some(<< >>)}, {Some([k \in {"a"} |-> 1]), Some(EmptyRec)})

(* the initial data a step declared at registration *)
InitialData(step) == OrElse(step.data, EmptyRec)

(* createStepStore(...).reset of the step stores from the i-th on:         *)
(* [sd, sv, ss] after their updateStepData and updateStepValidation calls  *)
RECURSIVE StepStoresReset(_, _, _, _)
StepStoresReset(ss, sd, sv, i) ==
  IF i > Len(ss) THEN [sd |-> sd, sv |-> sv, ss |-> ss]
  ELSE StepStoresReset(SetStepValidity(ss, ss[i].id, FALSE, << >>),
                       StoreUpdateStepData(sd, ss[i].id, InitialData(ss[i])),
                       SetValidation(sv, ss[i].id, FALSE, << >>),
                       i + 1)

Store_resetWizard ==
  /\ impl = "store"
  /\ LET r == StepStoresReset(steps, << >>, NoValidation, 1)
     IN /\ steps' = r.ss
        /\ stepsData' = r.sd
        /\ stepsValidation' = r.sv
  /\ currentStepIndex' = 0
  /\ last' = Call("resetWizard", NoIndex, "void", << >>)
  /\ UNCHANGED << pending, completed, eventLayer, impl, stepComponents, stepRefs,
                  currentValidationErrors >>

NextReset ==
  \/ \E step \in CreateStepStoreArgs : registerStep(step)
  \/ \E step \in CreateStepStoreArgs : Store_registerStep(step)
  \/ \E id \in Registered, data \in DataInputs : updateStepData(id, data)
  \/ \E id \in Registered, data \in DataInputs : Store_updateStepData(id, data)
  \/ \E index \in 0..(MaxSteps - 1) : goToStep(index)
  \/ reset
  \/ Store_resetWizard

SpecReset == InitCore /\ [][NextReset]_vars

(* C32: on reset every step's data record reverts to the initial data the  *)
(* step declared at registration: after reset, and after the demo's        *)
(* resetWizard, getStepData(id) is the declared initial data of every      *)
(* registered step.                                                        *)
C32_ResetRevertsToInitialData ==
  [][(reset \/ Store_resetWizard)
       => \A i \in 1..Len(steps') :
            getStepData(stepsData', steps'[i].id) = InitialData(steps'[i])]_vars

-----------------------------------------------------------------------------
(* SpecEventValidation: the validateStep wrapper of setupEventHandlers     *)
(* over its wizard state (impl = "events").  Steps get a schema or a       *)
(* custom validator, data is written, callbacks subscribe to               *)
(* validation-error, and steps are validated eagerly and lazily.           *)

Events_updateStepComponent(id, component) ==
  /\ impl = "events"
  /\ stepComponents' = [k \in (DOMAIN stepComponents) \cup {id} |->
                          IF k = id THEN component ELSE stepComponents[k]]
  /\ delivered' = << >>
  /\ last' = Call("updateStepComponent", NoIndex, "void", << >>)
  /\ UNCHANGED << pending, completed, impl, steps, currentStepIndex, stepsData, stepsValidation,
                  stepRefs, currentValidationErrors, previousStepIndex, listeners >>

Events_updateStepData(id, data) ==
  /\ impl = "events"
  /\ stepsData' = StateUpdateStepData(stepsData, id, data)
  /\ delivered' = << >>
  /\ last' = Call("updateStepData", NoIndex, "void", << >>)
  /\ UNCHANGED << pending, completed, impl, steps, currentStepIndex, stepsValidation, stepComponents,
                  stepRefs, currentValidationErrors, previousStepIndex, listeners >>

(* the payload the validateStep wrapper builds *)
ValidationError(id, errors) ==
  [type |-> "validation-error", stepId |-> id, errors |-> errors]

(* a wrapper that reads the error list before the validation has run *)
WrappedValidateStep_ErrorsReadFirst(id, lazyValidation) ==
  LET o == StateValidateStep(steps, stepsData, stepComponents, id, lazyValidation)
      payload == ValidationError(id, getStepValidation(stepsValidation, id))
      e == Emit(listeners, "validation-error", payload)
  IN IF o.ret = "throws" \/ TruthyResult(o.ret)
       THEN [o |-> o, ret |-> o.ret, calls |-> << >>, events |-> << >>]
       ELSE [o |-> o, ret |-> IF e.ret = "throws" THEN "throws" ELSE o.ret,
             calls |-> e.calls, events |-> << payload >>]

(* the wrapped validateStep: [o, ret, calls, events] with o what the       *)
(* original validateStep returned and recorded                             *)
WrappedValidateStep(id, lazyValidation) ==
  LET o == StateValidateStep(steps, stepsData, stepComponents, id, lazyValidation)
      sv == ApplyToValidation(stepsValidation, id, o)
      payload == ValidationError(id, getStepValidation(sv, id))
      e == Emit(listeners, "validation-error", payload)
  IN IF o.ret = "throws" \/ TruthyResult(o.ret)
       THEN [o |-> o, ret |-> o.ret, calls |-> << >>, events |-> << >>]
       ELSE [o |-> o, ret |-> IF e.ret = "throws" THEN "throws" ELSE o.ret,
             calls |-> e.calls, events |-> << payload >>]

Events_validateStep(id, lazyValidation) ==
  /\ impl = "events"
  /\ LET r == WrappedValidateStep(id, lazyValidation)
     IN /\ stepsValidation' = ApplyToValidation(stepsValidation, id, r.o)
        /\ steps' = ApplyToSteps(steps, id, r.o)
        /\ delivered' = r.calls
        /\ last' = Call(IF lazyValidation THEN "validateStepLazy" ELSE "validateStep",
                        NoIndex, r.ret, r.events)
  /\ UNCHANGED << pending, completed, impl, currentStepIndex, stepsData, stepComponents, stepRefs,
                  currentValidationErrors, previousStepIndex, listeners >>

EventValidators ==
  { [validate |-> "absent", schema |-> "required"],
    [validate |-> "false", schema |-> "absent"],
    [validate |-> "true", schema |-> "absent"] }

ValidationCallbacks == {"h1", "hx"}

NextEventValidation ==
  \/ \E step \in EventStepArgs : Events_registerStep(step)
  \/ \E id \in Registered, c \in EventValidators : Events_updateStepComponent(id, c)
  \/ \E id \in Registered, data \in NavData : Events_updateStepData(id, data)
  \/ \E id \in Ids, lazy \in BOOLEAN : Events_validateStep(id, lazy)
  \/ \E callback \in ValidationCallbacks :
       CanSubscribe("validation-error") /\ on("validation-error", callback)
  \/ \E callback \in ValidationCallbacks : off("validation-error", callback)

SpecEventValidation == InitEvents /\ [][NextEventValidation]_vars

(* the validation-error events among the events of a call *)
ValidationErrorsOf(events) ==
  SelectSeq(events, LAMBDA e : e.type = "validation-error")

(* C33: through the wrappers of setupEventHandlers, a validateStep call    *)
(* that returns false emits exactly one validation-error event, carrying   *)
(* the step id and the error list recorded for that step, and a call that  *)
(* returns true emits none.                                                *)
C33_ValidationErrorOnFailure ==
  [][\A id \in Ids, lazy \in BOOLEAN :
       Events_validateStep(id, lazy)
         => /\ last'.ret = "false"
                 => ValidationErrorsOf(last'.events)
                      = << ValidationError(id, getStepValidation(stepsValidation', id)) >>
            /\ last'.ret = "true" => ValidationErrorsOf(last'.events) = << >>]_vars

(* a validation that failed on a schema has been reported to a subscribed  *)
(* callback with the messages it recorded                                  *)
C33_Witness ==
  /\ impl = "events"
  /\ last.op = "validateStep" /\ last.ret = "false"
  /\ Len(last.events) = 1 /\ last.events[1].errors # << >>
  /\ delivered # << >>

-----------------------------------------------------------------------------
(* SpecOverlap: overlapping navigation calls on a Wizard of three steps,   *)
(* each step valid or invalid throughout.  The steps are the children of   *)
(* the default slot, processed when the component is set up.               *)

OverlapSteps == 3

OverlapIds == { IdPool[i] : i \in 1..OverlapSteps }

OverlapRefShapes ==
  [validate : {"true", "false"}, getData : {TRUE}, showValidationErrors : {TRUE}]

InitOverlap ==
  /\ impl = "wizard"
  /\ steps = ProcessSlots(<< >>, [i \in 1..OverlapSteps |->
                                    [id |-> IdPool[i], title |-> "T1"]])
  /\ currentStepIndex = 0
  /\ stepsData = << >>
  /\ stepsValidation = NoValidation
  /\ stepComponents = [i \in {} |-> NoComponent]
  /\ stepRefs \in [OverlapIds -> OverlapRefShapes]
  /\ currentValidationErrors = << >>
  /\ previousStepIndex = 0
  /\ listeners = NoListeners
  /\ delivered = << >>
  /\ pending = << >>
  /\ completed = {}
  /\ last = Call("init", NoIndex, "void", << >>)

NextOverlap ==
  \/ \E index \in 0..(OverlapSteps - 1) : Async_goToStep(index)
  \/ Async_goToPrevStep
  \/ Async_goToNextStep
  \/ \E i \in 1..MaxPending : Async_resume(i)

SpecOverlap == InitOverlap /\ [][NextOverlap]_vars

(* C34: under every interleaving of overlapping navigation calls, the      *)
(* position moves forward off a step only when the validator result the    *)
(* call used was obtained for that very step and was valid.                *)
C34_ForwardMoveUsesOwnVerdict ==
  [][\A i \in 1..Len(pending) :
       (Async_resume(i) /\ currentStepIndex' > currentStepIndex)
         => (pending[i].at = currentStepIndex /\ Passed(pending[i].v))]_vars

-----------------------------------------------------------------------------
(* C35: under every interleaving of overlapping goToNextStep calls, a      *)
(* step-complete event for step i is emitted only after the validator of   *)
(* step i itself returned valid within the same call, and at most one      *)
(* step-complete event is emitted per step per visit.                      *)
(* The events are emitted in the segment after await getCurrentStepData(), *)
(* for the call's last validation.                                         *)
EmitsStepComplete(i) ==
  /\ Async_resume(i)
  /\ pending[i].op = "goToNextStep"
  /\ StepCompletesOf(last'.events) # << >>

C35_StepCompleteOnOwnVerdictOncePerVisit ==
  [][\A i \in 1..Len(pending) :
       EmitsStepComplete(i)
         => LET sc == StepCompletesOf(last'.events)
            IN /\ Len(sc) = 1
               /\ pending[i].at = sc[1].stepIndex
               /\ Passed(pending[i].v)
               /\ sc[1].stepIndex \notin completed]_vars

-----------------------------------------------------------------------------
(* C36: a complete event is emitted only where the step list is non-empty  *)
(* and the position is the last step (currentStepIndex = totalSteps - 1);  *)
(* handleComplete() on a non-final step or on a wizard without steps       *)
(* emits nothing and returns false.                                        *)
EmitsComplete(events) == \E k \in 1..Len(events) : events[k].type = "complete"

AtLastStep == Len(steps) > 0 /\ currentStepIndex = Len(steps) - 1

C36_CompleteOnlyOnLastStep ==
  [][/\ EmitsComplete(last'.events) => AtLastStep
     /\ (last'.op = "handleComplete" /\ ~AtLastStep)
          => (last'.ret = "false" /\ last'.events = << >>)]_vars

-----------------------------------------------------------------------------
(* C37: in every reachable state the keys of the step data record and of   *)
(* the validation state record are registered step ids: updateStepData and *)
(* updateStepValidation for an unregistered id create no entry, and        *)
(* getFlattenedData() holds no data of an unregistered step.               *)
RegisteredData == SelectSeq(stepsData, LAMBDA e : e.id \in Registered)

C37_RecordsKeyedByRegisteredIds ==
  /\ DataIds(stepsData) \subseteq Registered
  /\ DOMAIN stepsValidation \subseteq Registered
  /\ getFlattenedData(stepsData) = getFlattenedData(RegisteredData)

-----------------------------------------------------------------------------
(* C38: in every reachable state each step descriptor's isValid and errors *)
(* agree with the validation state record: where a record exists for the   *)
(* step id the descriptor's isValid and errors equal the record's, and     *)
(* where reset() has removed the record the descriptor does not still      *)
(* report isValid = true.                                                  *)
DescriptorAgrees(step) ==
  IF step.id \in DOMAIN stepsValidation
    THEN /\ step.isValid = Some(stepsValidation[step.id].isValid)
         /\ step.errors = Some(stepsValidation[step.id].errors)
    ELSE step.isValid # Some(TRUE)

C38_DescriptorAgreesWithRecord ==
  \A i \in 1..Len(steps) : DescriptorAgrees(steps[i])

-----------------------------------------------------------------------------
(* The wizard context used on its own: steps are registered through the    *)
(* context or found in the slot, the component moves the position, and the *)
(* context's own navigation and validation methods are called.             *)
NextContext ==
  \/ \E step \in NavStepArgs : Context_registerStep(step)
  \/ \E slots \in NewSlots : Wizard_processSlots(slots)
  \/ \E id \in Registered, data \in NavData : Context_updateStepData(id, data)
  \/ \E index \in Indexes : Wizard_goToStep(index)
  \/ \E index \in Indexes : Context_goToStep(index)
  \/ Context_goToNextStep
  \/ Context_goToPrevStep
  \/ \E id \in Ids, lazy \in BOOLEAN : Context_validateStep(id, lazy)

SpecContext == InitWizard /\ [][NextContext]_vars

(* C39: the wizard context acts on the state it exposes: context.goToStep  *)
(* (i) with i in range of context.steps returns true and makes             *)
(* context.currentStepIndex equal i, context.goToNextStep / goToPrevStep   *)
(* move context.currentStepIndex by one, and context.validateStep(id) for  *)
(* an id of context.steps is evaluated against that step rather than       *)
(* failing as an unknown id.                                               *)
C39_ContextActsOnExposedState ==
  [][/\ \A index \in Indexes :
          (Context_goToStep(index) /\ InRange(steps, index))
            => (last'.ret = "true" /\ currentStepIndex' = index)
     /\ (Context_goToNextStep /\ canGoNext)
          => (last'.ret = "true" /\ currentStepIndex' = currentStepIndex + 1)
     /\ (Context_goToPrevStep /\ canGoPrevious)
          => (last'.ret = "true" /\ currentStepIndex' = currentStepIndex - 1)
     /\ \A id \in Registered, lazy \in BOOLEAN :
          Context_validateStep(id, lazy)
            => last'.ret = StateValidateStep(steps, stepsData, stepComponents,
                                             id, lazy).ret]_vars

-----------------------------------------------------------------------------
(* C40: a goToNextStep() call that returns false emits no step-complete    *)
(* event: step-complete is emitted only in calls that then advance the     *)
(* position or complete the wizard, even when the step's validator is      *)
(* invoked more than once within the call and returns different results.   *)
(* The events of a call are those of its earlier segments and those of the *)
(* segment in which it returns.                                            *)
EventsOfCall(c, events) == c.emitted \o events

C40_RefusedNextEmitsNoStepComplete ==
  [][\A i \in 1..Len(pending) :
       (/\ Async_resume(i)
        /\ pending[i].op = "goToNextStep"
        /\ last'.ret = "false")
         => StepCompletesOf(EventsOfCall(pending[i], last'.events)) = << >>]_vars

====
